---- MODULE Spec2Model ----
(***************************************************************************)
(* The system-call declarations of                                         *)
(* arch/x64/sysroot/include/zircon/syscalls/definitions.h.                 *)
(*                                                                         *)
(* The header is a list of extern function prototypes.  Each prototype is  *)
(* a record:                                                               *)
(*   line      its first line in definitions.h                             *)
(*   kind      "function" (the kind of top-level item)                     *)
(*   storage   the storage-class keyword in front of it                    *)
(*   body      whether a function body follows the declarator              *)
(*   ret       the tokens of the return type                               *)
(*   name      the name, split as <<"zx_", X>> or <<"_", "zx_", X>>        *)
(*   voidList  whether the parameter list is written (void)                *)
(*   params    the parameters in order: the ZX_SYSCALL_PARAM_ATTR tags,    *)
(*             the tokens of the type, and the parameter name              *)
(*   attrs     the attributes after the parameter list, in order, with     *)
(*             the arguments of __NONNULL((...))                           *)
(*                                                                         *)
(* Two things happen to the header.  A translation unit that includes it   *)
(* sees its declarations one after the other, in file order (Declare).     *)
(* Once they are all declared, a caller that owns a set of handles calls   *)
(* them (Call); what a call does to the caller's handles is what the       *)
(* ownership tags of the called prototype say.                             *)
(***************************************************************************)
EXTENDS Integers, Sequences, FiniteSets, TLC

\* definitions.h lines 5-23: zx_clock_get .. zx_clock_get_monotonic, each followed by its _zx_ variant.
Decls_clock ==
  <<
  [ line |-> 5, kind |-> "function", storage |-> "extern", body |-> FALSE,
    ret |-> <<"zx_time_t">>, name |-> <<"zx_", "clock_get">>,
    voidList |-> FALSE,
    params |-> <<
        [tags |-> <<>>, type |-> <<"zx_clock_t">>, name |-> "clock_id"] >>,
    attrs |-> <<[attr |-> "__LEAF_FN", args |-> <<>>]>> ],
  [ line |-> 8, kind |-> "function", storage |-> "extern", body |-> FALSE,
    ret |-> <<"zx_time_t">>, name |-> <<"_", "zx_", "clock_get">>,
    voidList |-> FALSE,
    params |-> <<
        [tags |-> <<>>, type |-> <<"zx_clock_t">>, name |-> "clock_id"] >>,
    attrs |-> <<[attr |-> "__LEAF_FN", args |-> <<>>]>> ],
  [ line |-> 11, kind |-> "function", storage |-> "extern", body |-> FALSE,
    ret |-> <<"zx_status_t">>, name |-> <<"zx_", "clock_get_new">>,
    voidList |-> FALSE,
    params |-> <<
        [tags |-> <<>>, type |-> <<"zx_clock_t">>, name |-> "clock_id"],
        [tags |-> <<>>, type |-> <<"zx_time_t", "*">>, name |-> "out"] >>,
    attrs |-> <<[attr |-> "__NONNULL", args |-> <<2>>], [attr |-> "__LEAF_FN", args |-> <<>>]>> ],
  [ line |-> 15, kind |-> "function", storage |-> "extern", body |-> FALSE,
    ret |-> <<"zx_status_t">>, name |-> <<"_", "zx_", "clock_get_new">>,
    voidList |-> FALSE,
    params |-> <<
        [tags |-> <<>>, type |-> <<"zx_clock_t">>, name |-> "clock_id"],
        [tags |-> <<>>, type |-> <<"zx_time_t", "*">>, name |-> "out"] >>,
    attrs |-> <<[attr |-> "__NONNULL", args |-> <<2>>], [attr |-> "__LEAF_FN", args |-> <<>>]>> ],
  [ line |-> 19, kind |-> "function", storage |-> "extern", body |-> FALSE,
    ret |-> <<"zx_time_t">>, name |-> <<"zx_", "clock_get_monotonic">>,
    voidList |-> TRUE,
    params |-> <<>>,
    attrs |-> <<[attr |-> "__LEAF_FN", args |-> <<>>]>> ],
  [ line |-> 22, kind |-> "function", storage |-> "extern", body |-> FALSE,
    ret |-> <<"zx_time_t">>, name |-> <<"_", "zx_", "clock_get_monotonic">>,
    voidList |-> TRUE,
    params |-> <<>>,
    attrs |-> <<[attr |-> "__LEAF_FN", args |-> <<>>]>> ]
  >>

\* Decls_nanosleep as a slip of the generator would leave it: the underscore of the private variant is missing, so zx_nanosleep is declared twice.
Decls_nanosleep_PublicTwice ==
  <<
  [ line |-> 25, kind |-> "function", storage |-> "extern", body |-> FALSE,
    ret |-> <<"zx_status_t">>, name |-> <<"zx_", "nanosleep">>,
    voidList |-> FALSE,
    params |-> <<
        [tags |-> <<>>, type |-> <<"zx_time_t">>, name |-> "deadline"] >>,
    attrs |-> <<[attr |-> "__LEAF_FN", args |-> <<>>]>> ],
  [ line |-> 28, kind |-> "function", storage |-> "extern", body |-> FALSE,
    ret |-> <<"zx_status_t">>, name |-> <<"zx_", "nanosleep">>,
    voidList |-> FALSE,
    params |-> <<
        [tags |-> <<>>, type |-> <<"zx_time_t">>, name |-> "deadline"] >>,
    attrs |-> <<[attr |-> "__LEAF_FN", args |-> <<>>]>> ]
  >>

\* Decls_nanosleep as a slip of the generator would leave it: the private variant is emitted before the public one.
Decls_nanosleep_PrivateFirst ==
  <<
  [ line |-> 25, kind |-> "function", storage |-> "extern", body |-> FALSE,
    ret |-> <<"zx_status_t">>, name |-> <<"_", "zx_", "nanosleep">>,
    voidList |-> FALSE,
    params |-> <<
        [tags |-> <<>>, type |-> <<"zx_time_t">>, name |-> "deadline"] >>,
    attrs |-> <<[attr |-> "__LEAF_FN", args |-> <<>>]>> ],
  [ line |-> 28, kind |-> "function", storage |-> "extern", body |-> FALSE,
    ret |-> <<"zx_status_t">>, name |-> <<"zx_", "nanosleep">>,
    voidList |-> FALSE,
    params |-> <<
        [tags |-> <<>>, type |-> <<"zx_time_t">>, name |-> "deadline"] >>,
    attrs |-> <<[attr |-> "__LEAF_FN", args |-> <<>>]>> ]
  >>

\* Decls_nanosleep as a slip of the generator would leave it: the private variant takes a zx_duration_t where the public one takes a zx_time_t.
Decls_nanosleep_PrivateTypeDiffers ==
  <<
  [ line |-> 25, kind |-> "function", storage |-> "extern", body |-> FALSE,
    ret |-> <<"zx_status_t">>, name |-> <<"zx_", "nanosleep">>,
    voidList |-> FALSE,
    params |-> <<
        [tags |-> <<>>, type |-> <<"zx_time_t">>, name |-> "deadline"] >>,
    attrs |-> <<[attr |-> "__LEAF_FN", args |-> <<>>]>> ],
  [ line |-> 28, kind |-> "function", storage |-> "extern", body |-> FALSE,
    ret |-> <<"zx_status_t">>, name |-> <<"_", "zx_", "nanosleep">>,
    voidList |-> FALSE,
    params |-> <<
        [tags |-> <<>>, type |-> <<"zx_duration_t">>, name |-> "deadline"] >>,
    attrs |-> <<[attr |-> "__LEAF_FN", args |-> <<>>]>> ]
  >>

\* definitions.h lines 25-29: zx_nanosleep, each followed by its _zx_ variant.
Decls_nanosleep ==
  <<
  [ line |-> 25, kind |-> "function", storage |-> "extern", body |-> FALSE,
    ret |-> <<"zx_status_t">>, name |-> <<"zx_", "nanosleep">>,
    voidList |-> FALSE,
    params |-> <<
        [tags |-> <<>>, type |-> <<"zx_time_t">>, name |-> "deadline"] >>,
    attrs |-> <<[attr |-> "__LEAF_FN", args |-> <<>>]>> ],
  [ line |-> 28, kind |-> "function", storage |-> "extern", body |-> FALSE,
    ret |-> <<"zx_status_t">>, name |-> <<"_", "zx_", "nanosleep">>,
    voidList |-> FALSE,
    params |-> <<
        [tags |-> <<>>, type |-> <<"zx_time_t">>, name |-> "deadline"] >>,
    attrs |-> <<[attr |-> "__LEAF_FN", args |-> <<>>]>> ]
  >>

\* Decls_ticks as a slip of the generator would leave it: the parameter list of zx_ticks_get is written () instead of (void).
Decls_ticks_EmptyParens ==
  <<
  [ line |-> 31, kind |-> "function", storage |-> "extern", body |-> FALSE,
    ret |-> <<"zx_ticks_t">>, name |-> <<"zx_", "ticks_get">>,
    voidList |-> FALSE,
    params |-> <<>>,
    attrs |-> <<[attr |-> "__LEAF_FN", args |-> <<>>]>> ],
  [ line |-> 34, kind |-> "function", storage |-> "extern", body |-> FALSE,
    ret |-> <<"zx_ticks_t">>, name |-> <<"_", "zx_", "ticks_get">>,
    voidList |-> FALSE,
    params |-> <<>>,
    attrs |-> <<[attr |-> "__LEAF_FN", args |-> <<>>]>> ],
  [ line |-> 37, kind |-> "function", storage |-> "extern", body |-> FALSE,
    ret |-> <<"zx_ticks_t">>, name |-> <<"zx_", "ticks_per_second">>,
    voidList |-> TRUE,
    params |-> <<>>,
    attrs |-> <<[attr |-> "__LEAF_FN", args |-> <<>>], [attr |-> "__CONST", args |-> <<>>]>> ],
  [ line |-> 40, kind |-> "function", storage |-> "extern", body |-> FALSE,
    ret |-> <<"zx_ticks_t">>, name |-> <<"_", "zx_", "ticks_per_second">>,
    voidList |-> TRUE,
    params |-> <<>>,
    attrs |-> <<[attr |-> "__LEAF_FN", args |-> <<>>], [attr |-> "__CONST", args |-> <<>>]>> ]
  >>

\* definitions.h lines 31-41: zx_ticks_get .. zx_ticks_per_second, each followed by its _zx_ variant.
Decls_ticks ==
  <<
  [ line |-> 31, kind |-> "function", storage |-> "extern", body |-> FALSE,
    ret |-> <<"zx_ticks_t">>, name |-> <<"zx_", "ticks_get">>,
    voidList |-> TRUE,
    params |-> <<>>,
    attrs |-> <<[attr |-> "__LEAF_FN", args |-> <<>>]>> ],
  [ line |-> 34, kind |-> "function", storage |-> "extern", body |-> FALSE,
    ret |-> <<"zx_ticks_t">>, name |-> <<"_", "zx_", "ticks_get">>,
    voidList |-> TRUE,
    params |-> <<>>,
    attrs |-> <<[attr |-> "__LEAF_FN", args |-> <<>>]>> ],
  [ line |-> 37, kind |-> "function", storage |-> "extern", body |-> FALSE,
    ret |-> <<"zx_ticks_t">>, name |-> <<"zx_", "ticks_per_second">>,
    voidList |-> TRUE,
    params |-> <<>>,
    attrs |-> <<[attr |-> "__LEAF_FN", args |-> <<>>], [attr |-> "__CONST", args |-> <<>>]>> ],
  [ line |-> 40, kind |-> "function", storage |-> "extern", body |-> FALSE,
    ret |-> <<"zx_ticks_t">>, name |-> <<"_", "zx_", "ticks_per_second">>,
    voidList |-> TRUE,
    params |-> <<>>,
    attrs |-> <<[attr |-> "__LEAF_FN", args |-> <<>>], [attr |-> "__CONST", args |-> <<>>]>> ]
  >>

\* Decls_deadline as a slip of the generator would leave it: zx_deadline_after returns a zx_duration_t.
Decls_deadline_ReturnsDuration ==
  <<
  [ line |-> 43, kind |-> "function", storage |-> "extern", body |-> FALSE,
    ret |-> <<"zx_duration_t">>, name |-> <<"zx_", "deadline_after">>,
    voidList |-> FALSE,
    params |-> <<
        [tags |-> <<>>, type |-> <<"zx_duration_t">>, name |-> "nanoseconds"] >>,
    attrs |-> <<[attr |-> "__LEAF_FN", args |-> <<>>]>> ],
  [ line |-> 46, kind |-> "function", storage |-> "extern", body |-> FALSE,
    ret |-> <<"zx_duration_t">>, name |-> <<"_", "zx_", "deadline_after">>,
    voidList |-> FALSE,
    params |-> <<
        [tags |-> <<>>, type |-> <<"zx_duration_t">>, name |-> "nanoseconds"] >>,
    attrs |-> <<[attr |-> "__LEAF_FN", args |-> <<>>]>> ]
  >>

\* definitions.h lines 43-47: zx_deadline_after, each followed by its _zx_ variant.
Decls_deadline ==
  <<
  [ line |-> 43, kind |-> "function", storage |-> "extern", body |-> FALSE,
    ret |-> <<"zx_time_t">>, name |-> <<"zx_", "deadline_after">>,
    voidList |-> FALSE,
    params |-> <<
        [tags |-> <<>>, type |-> <<"zx_duration_t">>, name |-> "nanoseconds"] >>,
    attrs |-> <<[attr |-> "__LEAF_FN", args |-> <<>>]>> ],
  [ line |-> 46, kind |-> "function", storage |-> "extern", body |-> FALSE,
    ret |-> <<"zx_time_t">>, name |-> <<"_", "zx_", "deadline_after">>,
    voidList |-> FALSE,
    params |-> <<
        [tags |-> <<>>, type |-> <<"zx_duration_t">>, name |-> "nanoseconds"] >>,
    attrs |-> <<[attr |-> "__LEAF_FN", args |-> <<>>]>> ]
  >>

\* definitions.h lines 49-57: zx_clock_adjust, each followed by its _zx_ variant.
Decls_clock2 ==
  <<
  [ line |-> 49, kind |-> "function", storage |-> "extern", body |-> FALSE,
    ret |-> <<"zx_status_t">>, name |-> <<"zx_", "clock_adjust">>,
    voidList |-> FALSE,
    params |-> <<
        [tags |-> <<"handle_use">>, type |-> <<"zx_handle_t">>, name |-> "handle"],
        [tags |-> <<>>, type |-> <<"zx_clock_t">>, name |-> "clock_id"],
        [tags |-> <<>>, type |-> <<"int64_t">>, name |-> "offset"] >>,
    attrs |-> <<[attr |-> "__LEAF_FN", args |-> <<>>]>> ],
  [ line |-> 54, kind |-> "function", storage |-> "extern", body |-> FALSE,
    ret |-> <<"zx_status_t">>, name |-> <<"_", "zx_", "clock_adjust">>,
    voidList |-> FALSE,
    params |-> <<
        [tags |-> <<"handle_use">>, type |-> <<"zx_handle_t">>, name |-> "handle"],
        [tags |-> <<>>, type |-> <<"zx_clock_t">>, name |-> "clock_id"],
        [tags |-> <<>>, type |-> <<"int64_t">>, name |-> "offset"] >>,
    attrs |-> <<[attr |-> "__LEAF_FN", args |-> <<>>]>> ]
  >>

\* definitions.h lines 59-91: zx_system_get_dcache_line_size .. zx_system_get_features, each followed by its _zx_ variant.
Decls_system ==
  <<
  [ line |-> 59, kind |-> "function", storage |-> "extern", body |-> FALSE,
    ret |-> <<"uint32_t">>, name |-> <<"zx_", "system_get_dcache_line_size">>,
    voidList |-> TRUE,
    params |-> <<>>,
    attrs |-> <<[attr |-> "__LEAF_FN", args |-> <<>>], [attr |-> "__CONST", args |-> <<>>]>> ],
  [ line |-> 62, kind |-> "function", storage |-> "extern", body |-> FALSE,
    ret |-> <<"uint32_t">>, name |-> <<"_", "zx_", "system_get_dcache_line_size">>,
    voidList |-> TRUE,
    params |-> <<>>,
    attrs |-> <<[attr |-> "__LEAF_FN", args |-> <<>>], [attr |-> "__CONST", args |-> <<>>]>> ],
  [ line |-> 65, kind |-> "function", storage |-> "extern", body |-> FALSE,
    ret |-> <<"uint32_t">>, name |-> <<"zx_", "system_get_num_cpus">>,
    voidList |-> TRUE,
    params |-> <<>>,
    attrs |-> <<[attr |-> "__LEAF_FN", args |-> <<>>], [attr |-> "__CONST", args |-> <<>>]>> ],
  [ line |-> 68, kind |-> "function", storage |-> "extern", body |-> FALSE,
    ret |-> <<"uint32_t">>, name |-> <<"_", "zx_", "system_get_num_cpus">>,
    voidList |-> TRUE,
    params |-> <<>>,
    attrs |-> <<[attr |-> "__LEAF_FN", args |-> <<>>], [attr |-> "__CONST", args |-> <<>>]>> ],
  [ line |-> 71, kind |-> "function", storage |-> "extern", body |-> FALSE,
    ret |-> <<"zx_status_t">>, name |-> <<"zx_", "system_get_version">>,
    voidList |-> FALSE,
    params |-> <<
        [tags |-> <<>>, type |-> <<"char", "*">>, name |-> "version"],
        [tags |-> <<>>, type |-> <<"size_t">>, name |-> "version_size"] >>,
    attrs |-> <<[attr |-> "__LEAF_FN", args |-> <<>>]>> ],
  [ line |-> 75, kind |-> "function", storage |-> "extern", body |-> FALSE,
    ret |-> <<"zx_status_t">>, name |-> <<"_", "zx_", "system_get_version">>,
    voidList |-> FALSE,
    params |-> <<
        [tags |-> <<>>, type |-> <<"char", "*">>, name |-> "version"],
        [tags |-> <<>>, type |-> <<"size_t">>, name |-> "version_size"] >>,
    attrs |-> <<[attr |-> "__LEAF_FN", args |-> <<>>]>> ],
  [ line |-> 79, kind |-> "function", storage |-> "extern", body |-> FALSE,
    ret |-> <<"uint64_t">>, name |-> <<"zx_", "system_get_physmem">>,
    voidList |-> TRUE,
    params |-> <<>>,
    attrs |-> <<[attr |-> "__LEAF_FN", args |-> <<>>]>> ],
  [ line |-> 82, kind |-> "function", storage |-> "extern", body |-> FALSE,
    ret |-> <<"uint64_t">>, name |-> <<"_", "zx_", "system_get_physmem">>,
    voidList |-> TRUE,
    params |-> <<>>,
    attrs |-> <<[attr |-> "__LEAF_FN", args |-> <<>>]>> ],
  [ line |-> 85, kind |-> "function", storage |-> "extern", body |-> FALSE,
    ret |-> <<"zx_status_t">>, name |-> <<"zx_", "system_get_features">>,
    voidList |-> FALSE,
    params |-> <<
        [tags |-> <<>>, type |-> <<"uint32_t">>, name |-> "kind"],
        [tags |-> <<"features">>, type |-> <<"uint32_t", "*">>, name |-> "features"] >>,
    attrs |-> <<[attr |-> "__NONNULL", args |-> <<2>>], [attr |-> "__LEAF_FN", args |-> <<>>]>> ],
  [ line |-> 89, kind |-> "function", storage |-> "extern", body |-> FALSE,
    ret |-> <<"zx_status_t">>, name |-> <<"_", "zx_", "system_get_features">>,
    voidList |-> FALSE,
    params |-> <<
        [tags |-> <<>>, type |-> <<"uint32_t">>, name |-> "kind"],
        [tags |-> <<"features">>, type |-> <<"uint32_t", "*">>, name |-> "features"] >>,
    attrs |-> <<[attr |-> "__NONNULL", args |-> <<2>>], [attr |-> "__LEAF_FN", args |-> <<>>]>> ]
  >>

\* Decls_cache as a slip of the generator would leave it: the public zx_cache_flush has lost __LEAF_FN.
Decls_cache_NoLeaf ==
  <<
  [ line |-> 93, kind |-> "function", storage |-> "extern", body |-> FALSE,
    ret |-> <<"zx_status_t">>, name |-> <<"zx_", "cache_flush">>,
    voidList |-> FALSE,
    params |-> <<
        [tags |-> <<>>, type |-> <<"const", "void", "*">>, name |-> "addr"],
        [tags |-> <<>>, type |-> <<"size_t">>, name |-> "size"],
        [tags |-> <<>>, type |-> <<"uint32_t">>, name |-> "options"] >>,
    attrs |-> <<>> ],
  [ line |-> 98, kind |-> "function", storage |-> "extern", body |-> FALSE,
    ret |-> <<"zx_status_t">>, name |-> <<"_", "zx_", "cache_flush">>,
    voidList |-> FALSE,
    params |-> <<
        [tags |-> <<>>, type |-> <<"const", "void", "*">>, name |-> "addr"],
        [tags |-> <<>>, type |-> <<"size_t">>, name |-> "size"],
        [tags |-> <<>>, type |-> <<"uint32_t">>, name |-> "options"] >>,
    attrs |-> <<[attr |-> "__LEAF_FN", args |-> <<>>]>> ]
  >>

\* definitions.h lines 93-101: zx_cache_flush, each followed by its _zx_ variant.
Decls_cache ==
  <<
  [ line |-> 93, kind |-> "function", storage |-> "extern", body |-> FALSE,
    ret |-> <<"zx_status_t">>, name |-> <<"zx_", "cache_flush">>,
    voidList |-> FALSE,
    params |-> <<
        [tags |-> <<>>, type |-> <<"const", "void", "*">>, name |-> "addr"],
        [tags |-> <<>>, type |-> <<"size_t">>, name |-> "size"],
        [tags |-> <<>>, type |-> <<"uint32_t">>, name |-> "options"] >>,
    attrs |-> <<[attr |-> "__LEAF_FN", args |-> <<>>]>> ],
  [ line |-> 98, kind |-> "function", storage |-> "extern", body |-> FALSE,
    ret |-> <<"zx_status_t">>, name |-> <<"_", "zx_", "cache_flush">>,
    voidList |-> FALSE,
    params |-> <<
        [tags |-> <<>>, type |-> <<"const", "void", "*">>, name |-> "addr"],
        [tags |-> <<>>, type |-> <<"size_t">>, name |-> "size"],
        [tags |-> <<>>, type |-> <<"uint32_t">>, name |-> "options"] >>,
    attrs |-> <<[attr |-> "__LEAF_FN", args |-> <<>>]>> ]
  >>

\* definitions.h lines 103-125: zx_handle_close .. zx_handle_duplicate, each followed by its _zx_ variant.
Decls_handle ==
  <<
  [ line |-> 103, kind |-> "function", storage |-> "extern", body |-> FALSE,
    ret |-> <<"zx_status_t">>, name |-> <<"zx_", "handle_close">>,
    voidList |-> FALSE,
    params |-> <<
        [tags |-> <<"handle_release_always">>, type |-> <<"zx_handle_t">>, name |-> "handle"] >>,
    attrs |-> <<[attr |-> "__LEAF_FN", args |-> <<>>]>> ],
  [ line |-> 106, kind |-> "function", storage |-> "extern", body |-> FALSE,
    ret |-> <<"zx_status_t">>, name |-> <<"_", "zx_", "handle_close">>,
    voidList |-> FALSE,
    params |-> <<
        [tags |-> <<"handle_release_always">>, type |-> <<"zx_handle_t">>, name |-> "handle"] >>,
    attrs |-> <<[attr |-> "__LEAF_FN", args |-> <<>>]>> ],
  [ line |-> 109, kind |-> "function", storage |-> "extern", body |-> FALSE,
    ret |-> <<"zx_status_t">>, name |-> <<"zx_", "handle_close_many">>,
    voidList |-> FALSE,
    params |-> <<
        [tags |-> <<>>, type |-> <<"const", "zx_handle_t", "*">>, name |-> "handles"],
        [tags |-> <<>>, type |-> <<"size_t">>, name |-> "num_handles"] >>,
    attrs |-> <<[attr |-> "__LEAF_FN", args |-> <<>>]>> ],
  [ line |-> 113, kind |-> "function", storage |-> "extern", body |-> FALSE,
    ret |-> <<"zx_status_t">>, name |-> <<"_", "zx_", "handle_close_many">>,
    voidList |-> FALSE,
    params |-> <<
        [tags |-> <<>>, type |-> <<"const", "zx_handle_t", "*">>, name |-> "handles"],
        [tags |-> <<>>, type |-> <<"size_t">>, name |-> "num_handles"] >>,
    attrs |-> <<[attr |-> "__LEAF_FN", args |-> <<>>]>> ],
  [ line |-> 117, kind |-> "function", storage |-> "extern", body |-> FALSE,
    ret |-> <<"zx_status_t">>, name |-> <<"zx_", "handle_duplicate">>,
    voidList |-> FALSE,
    params |-> <<
        [tags |-> <<"handle_use">>, type |-> <<"zx_handle_t">>, name |-> "handle"],
        [tags |-> <<>>, type |-> <<"zx_rights_t">>, name |-> "rights"],
        [tags |-> <<"handle_acquire">>, type |-> <<"zx_handle_t", "*">>, name |-> "out"] >>,
    attrs |-> <<[attr |-> "__NONNULL", args |-> <<3>>], [attr |-> "__LEAF_FN", args |-> <<>>]>> ],
  [ line |-> 122, kind |-> "function", storage |-> "extern", body |-> FALSE,
    ret |-> <<"zx_status_t">>, name |-> <<"_", "zx_", "handle_duplicate">>,
    voidList |-> FALSE,
    params |-> <<
        [tags |-> <<"handle_use">>, type |-> <<"zx_handle_t">>, name |-> "handle"],
        [tags |-> <<>>, type |-> <<"zx_rights_t">>, name |-> "rights"],
        [tags |-> <<"handle_acquire">>, type |-> <<"zx_handle_t", "*">>, name |-> "out"] >>,
    attrs |-> <<[attr |-> "__NONNULL", args |-> <<3>>], [attr |-> "__LEAF_FN", args |-> <<>>]>> ]
  >>

\* Decls_handle_replace as a slip of the generator would leave it: the out parameter of zx_handle_replace has lost its handle_acquire tag.
Decls_handle_replace_NoAcquire ==
  <<
  [ line |-> 127, kind |-> "function", storage |-> "extern", body |-> FALSE,
    ret |-> <<"zx_status_t">>, name |-> <<"zx_", "handle_replace">>,
    voidList |-> FALSE,
    params |-> <<
        [tags |-> <<"handle_release_always">>, type |-> <<"zx_handle_t">>, name |-> "handle"],
        [tags |-> <<>>, type |-> <<"zx_rights_t">>, name |-> "rights"],
        [tags |-> <<>>, type |-> <<"zx_handle_t", "*">>, name |-> "out"] >>,
    attrs |-> <<[attr |-> "__NONNULL", args |-> <<3>>], [attr |-> "__LEAF_FN", args |-> <<>>]>> ],
  [ line |-> 132, kind |-> "function", storage |-> "extern", body |-> FALSE,
    ret |-> <<"zx_status_t">>, name |-> <<"_", "zx_", "handle_replace">>,
    voidList |-> FALSE,
    params |-> <<
        [tags |-> <<"handle_release_always">>, type |-> <<"zx_handle_t">>, name |-> "handle"],
        [tags |-> <<>>, type |-> <<"zx_rights_t">>, name |-> "rights"],
        [tags |-> <<>>, type |-> <<"zx_handle_t", "*">>, name |-> "out"] >>,
    attrs |-> <<[attr |-> "__NONNULL", args |-> <<3>>], [attr |-> "__LEAF_FN", args |-> <<>>]>> ]
  >>

\* definitions.h lines 127-135: zx_handle_replace, each followed by its _zx_ variant.
Decls_handle_replace ==
  <<
  [ line |-> 127, kind |-> "function", storage |-> "extern", body |-> FALSE,
    ret |-> <<"zx_status_t">>, name |-> <<"zx_", "handle_replace">>,
    voidList |-> FALSE,
    params |-> <<
        [tags |-> <<"handle_release_always">>, type |-> <<"zx_handle_t">>, name |-> "handle"],
        [tags |-> <<>>, type |-> <<"zx_rights_t">>, name |-> "rights"],
        [tags |-> <<"handle_acquire">>, type |-> <<"zx_handle_t", "*">>, name |-> "out"] >>,
    attrs |-> <<[attr |-> "__NONNULL", args |-> <<3>>], [attr |-> "__LEAF_FN", args |-> <<>>]>> ],
  [ line |-> 132, kind |-> "function", storage |-> "extern", body |-> FALSE,
    ret |-> <<"zx_status_t">>, name |-> <<"_", "zx_", "handle_replace">>,
    voidList |-> FALSE,
    params |-> <<
        [tags |-> <<"handle_release_always">>, type |-> <<"zx_handle_t">>, name |-> "handle"],
        [tags |-> <<>>, type |-> <<"zx_rights_t">>, name |-> "rights"],
        [tags |-> <<"handle_acquire">>, type |-> <<"zx_handle_t", "*">>, name |-> "out"] >>,
    attrs |-> <<[attr |-> "__NONNULL", args |-> <<3>>], [attr |-> "__LEAF_FN", args |-> <<>>]>> ]
  >>

\* definitions.h lines 137-273: zx_object_wait_one .. zx_object_set_profile, each followed by its _zx_ variant.
Decls_object ==
  <<
  [ line |-> 137, kind |-> "function", storage |-> "extern", body |-> FALSE,
    ret |-> <<"zx_status_t">>, name |-> <<"zx_", "object_wait_one">>,
    voidList |-> FALSE,
    params |-> <<
        [tags |-> <<"handle_use">>, type |-> <<"zx_handle_t">>, name |-> "handle"],
        [tags |-> <<>>, type |-> <<"zx_signals_t">>, name |-> "signals"],
        [tags |-> <<>>, type |-> <<"zx_time_t">>, name |-> "deadline"],
        [tags |-> <<>>, type |-> <<"zx_signals_t", "*">>, name |-> "observed"] >>,
    attrs |-> <<[attr |-> "__LEAF_FN", args |-> <<>>]>> ],
  [ line |-> 143, kind |-> "function", storage |-> "extern", body |-> FALSE,
    ret |-> <<"zx_status_t">>, name |-> <<"_", "zx_", "object_wait_one">>,
    voidList |-> FALSE,
    params |-> <<
        [tags |-> <<"handle_use">>, type |-> <<"zx_handle_t">>, name |-> "handle"],
        [tags |-> <<>>, type |-> <<"zx_signals_t">>, name |-> "signals"],
        [tags |-> <<>>, type |-> <<"zx_time_t">>, name |-> "deadline"],
        [tags |-> <<>>, type |-> <<"zx_signals_t", "*">>, name |-> "observed"] >>,
    attrs |-> <<[attr |-> "__LEAF_FN", args |-> <<>>]>> ],
  [ line |-> 149, kind |-> "function", storage |-> "extern", body |-> FALSE,
    ret |-> <<"zx_status_t">>, name |-> <<"zx_", "object_wait_many">>,
    voidList |-> FALSE,
    params |-> <<
        [tags |-> <<>>, type |-> <<"zx_wait_item_t", "*">>, name |-> "items"],
        [tags |-> <<>>, type |-> <<"size_t">>, name |-> "count"],
        [tags |-> <<>>, type |-> <<"zx_time_t">>, name |-> "deadline"] >>,
    attrs |-> <<[attr |-> "__LEAF_FN", args |-> <<>>]>> ],
  [ line |-> 154, kind |-> "function", storage |-> "extern", body |-> FALSE,
    ret |-> <<"zx_status_t">>, name |-> <<"_", "zx_", "object_wait_many">>,
    voidList |-> FALSE,
    params |-> <<
        [tags |-> <<>>, type |-> <<"zx_wait_item_t", "*">>, name |-> "items"],
        [tags |-> <<>>, type |-> <<"size_t">>, name |-> "count"],
        [tags |-> <<>>, type |-> <<"zx_time_t">>, name |-> "deadline"] >>,
    attrs |-> <<[attr |-> "__LEAF_FN", args |-> <<>>]>> ],
  [ line |-> 159, kind |-> "function", storage |-> "extern", body |-> FALSE,
    ret |-> <<"zx_status_t">>, name |-> <<"zx_", "object_wait_async">>,
    voidList |-> FALSE,
    params |-> <<
        [tags |-> <<"handle_use">>, type |-> <<"zx_handle_t">>, name |-> "handle"],
        [tags |-> <<"handle_use">>, type |-> <<"zx_handle_t">>, name |-> "port"],
        [tags |-> <<>>, type |-> <<"uint64_t">>, name |-> "key"],
        [tags |-> <<>>, type |-> <<"zx_signals_t">>, name |-> "signals"],
        [tags |-> <<>>, type |-> <<"uint32_t">>, name |-> "options"] >>,
    attrs |-> <<[attr |-> "__LEAF_FN", args |-> <<>>]>> ],
  [ line |-> 166, kind |-> "function", storage |-> "extern", body |-> FALSE,
    ret |-> <<"zx_status_t">>, name |-> <<"_", "zx_", "object_wait_async">>,
    voidList |-> FALSE,
    params |-> <<
        [tags |-> <<"handle_use">>, type |-> <<"zx_handle_t">>, name |-> "handle"],
        [tags |-> <<"handle_use">>, type |-> <<"zx_handle_t">>, name |-> "port"],
        [tags |-> <<>>, type |-> <<"uint64_t">>, name |-> "key"],
        [tags |-> <<>>, type |-> <<"zx_signals_t">>, name |-> "signals"],
        [tags |-> <<>>, type |-> <<"uint32_t">>, name |-> "options"] >>,
    attrs |-> <<[attr |-> "__LEAF_FN", args |-> <<>>]>> ],
  [ line |-> 173, kind |-> "function", storage |-> "extern", body |-> FALSE,
    ret |-> <<"zx_status_t">>, name |-> <<"zx_", "object_signal">>,
    voidList |-> FALSE,
    params |-> <<
        [tags |-> <<"handle_use">>, type |-> <<"zx_handle_t">>, name |-> "handle"],
        [tags |-> <<>>, type |-> <<"uint32_t">>, name |-> "clear_mask"],
        [tags |-> <<>>, type |-> <<"uint32_t">>, name |-> "set_mask"] >>,
    attrs |-> <<[attr |-> "__LEAF_FN", args |-> <<>>]>> ],
  [ line |-> 178, kind |-> "function", storage |-> "extern", body |-> FALSE,
    ret |-> <<"zx_status_t">>, name |-> <<"_", "zx_", "object_signal">>,
    voidList |-> FALSE,
    params |-> <<
        [tags |-> <<"handle_use">>, type |-> <<"zx_handle_t">>, name |-> "handle"],
        [tags |-> <<>>, type |-> <<"uint32_t">>, name |-> "clear_mask"],
        [tags |-> <<>>, type |-> <<"uint32_t">>, name |-> "set_mask"] >>,
    attrs |-> <<[attr |-> "__LEAF_FN", args |-> <<>>]>> ],
  [ line |-> 183, kind |-> "function", storage |-> "extern", body |-> FALSE,
    ret |-> <<"zx_status_t">>, name |-> <<"zx_", "object_signal_peer">>,
    voidList |-> FALSE,
    params |-> <<
        [tags |-> <<"handle_use">>, type |-> <<"zx_handle_t">>, name |-> "handle"],
        [tags |-> <<>>, type |-> <<"uint32_t">>, name |-> "clear_mask"],
        [tags |-> <<>>, type |-> <<"uint32_t">>, name |-> "set_mask"] >>,
    attrs |-> <<[attr |-> "__LEAF_FN", args |-> <<>>]>> ],
  [ line |-> 188, kind |-> "function", storage |-> "extern", body |-> FALSE,
    ret |-> <<"zx_status_t">>, name |-> <<"_", "zx_", "object_signal_peer">>,
    voidList |-> FALSE,
    params |-> <<
        [tags |-> <<"handle_use">>, type |-> <<"zx_handle_t">>, name |-> "handle"],
        [tags |-> <<>>, type |-> <<"uint32_t">>, name |-> "clear_mask"],
        [tags |-> <<>>, type |-> <<"uint32_t">>, name |-> "set_mask"] >>,
    attrs |-> <<[attr |-> "__LEAF_FN", args |-> <<>>]>> ],
  [ line |-> 193, kind |-> "function", storage |-> "extern", body |-> FALSE,
    ret |-> <<"zx_status_t">>, name |-> <<"zx_", "object_get_property">>,
    voidList |-> FALSE,
    params |-> <<
        [tags |-> <<"handle_use">>, type |-> <<"zx_handle_t">>, name |-> "handle"],
        [tags |-> <<>>, type |-> <<"uint32_t">>, name |-> "property"],
        [tags |-> <<>>, type |-> <<"void", "*">>, name |-> "value"],
        [tags |-> <<>>, type |-> <<"size_t">>, name |-> "value_size"] >>,
    attrs |-> <<[attr |-> "__LEAF_FN", args |-> <<>>]>> ],
  [ line |-> 199, kind |-> "function", storage |-> "extern", body |-> FALSE,
    ret |-> <<"zx_status_t">>, name |-> <<"_", "zx_", "object_get_property">>,
    voidList |-> FALSE,
    params |-> <<
        [tags |-> <<"handle_use">>, type |-> <<"zx_handle_t">>, name |-> "handle"],
        [tags |-> <<>>, type |-> <<"uint32_t">>, name |-> "property"],
        [tags |-> <<>>, type |-> <<"void", "*">>, name |-> "value"],
        [tags |-> <<>>, type |-> <<"size_t">>, name |-> "value_size"] >>,
    attrs |-> <<[attr |-> "__LEAF_FN", args |-> <<>>]>> ],
  [ line |-> 205, kind |-> "function", storage |-> "extern", body |-> FALSE,
    ret |-> <<"zx_status_t">>, name |-> <<"zx_", "object_set_property">>,
    voidList |-> FALSE,
    params |-> <<
        [tags |-> <<"handle_use">>, type |-> <<"zx_handle_t">>, name |-> "handle"],
        [tags |-> <<>>, type |-> <<"uint32_t">>, name |-> "property"],
        [tags |-> <<>>, type |-> <<"const", "void", "*">>, name |-> "value"],
        [tags |-> <<>>, type |-> <<"size_t">>, name |-> "value_size"] >>,
    attrs |-> <<[attr |-> "__LEAF_FN", args |-> <<>>]>> ],
  [ line |-> 211, kind |-> "function", storage |-> "extern", body |-> FALSE,
    ret |-> <<"zx_status_t">>, name |-> <<"_", "zx_", "object_set_property">>,
    voidList |-> FALSE,
    params |-> <<
        [tags |-> <<"handle_use">>, type |-> <<"zx_handle_t">>, name |-> "handle"],
        [tags |-> <<>>, type |-> <<"uint32_t">>, name |-> "property"],
        [tags |-> <<>>, type |-> <<"const", "void", "*">>, name |-> "value"],
        [tags |-> <<>>, type |-> <<"size_t">>, name |-> "value_size"] >>,
    attrs |-> <<[attr |-> "__LEAF_FN", args |-> <<>>]>> ],
  [ line |-> 217, kind |-> "function", storage |-> "extern", body |-> FALSE,
    ret |-> <<"zx_status_t">>, name |-> <<"zx_", "object_set_cookie">>,
    voidList |-> FALSE,
    params |-> <<
        [tags |-> <<"handle_use">>, type |-> <<"zx_handle_t">>, name |-> "handle"],
        [tags |-> <<"handle_use">>, type |-> <<"zx_handle_t">>, name |-> "scope"],
        [tags |-> <<>>, type |-> <<"uint64_t">>, name |-> "cookie"] >>,
    attrs |-> <<[attr |-> "__LEAF_FN", args |-> <<>>]>> ],
  [ line |-> 222, kind |-> "function", storage |-> "extern", body |-> FALSE,
    ret |-> <<"zx_status_t">>, name |-> <<"_", "zx_", "object_set_cookie">>,
    voidList |-> FALSE,
    params |-> <<
        [tags |-> <<"handle_use">>, type |-> <<"zx_handle_t">>, name |-> "handle"],
        [tags |-> <<"handle_use">>, type |-> <<"zx_handle_t">>, name |-> "scope"],
        [tags |-> <<>>, type |-> <<"uint64_t">>, name |-> "cookie"] >>,
    attrs |-> <<[attr |-> "__LEAF_FN", args |-> <<>>]>> ],
  [ line |-> 227, kind |-> "function", storage |-> "extern", body |-> FALSE,
    ret |-> <<"zx_status_t">>, name |-> <<"zx_", "object_get_cookie">>,
    voidList |-> FALSE,
    params |-> <<
        [tags |-> <<"handle_use">>, type |-> <<"zx_handle_t">>, name |-> "handle"],
        [tags |-> <<"handle_use">>, type |-> <<"zx_handle_t">>, name |-> "scope"],
        [tags |-> <<>>, type |-> <<"uint64_t", "*">>, name |-> "cookie"] >>,
    attrs |-> <<[attr |-> "__NONNULL", args |-> <<3>>], [attr |-> "__LEAF_FN", args |-> <<>>]>> ],
  [ line |-> 232, kind |-> "function", storage |-> "extern", body |-> FALSE,
    ret |-> <<"zx_status_t">>, name |-> <<"_", "zx_", "object_get_cookie">>,
    voidList |-> FALSE,
    params |-> <<
        [tags |-> <<"handle_use">>, type |-> <<"zx_handle_t">>, name |-> "handle"],
        [tags |-> <<"handle_use">>, type |-> <<"zx_handle_t">>, name |-> "scope"],
        [tags |-> <<>>, type |-> <<"uint64_t", "*">>, name |-> "cookie"] >>,
    attrs |-> <<[attr |-> "__NONNULL", args |-> <<3>>], [attr |-> "__LEAF_FN", args |-> <<>>]>> ],
  [ line |-> 237, kind |-> "function", storage |-> "extern", body |-> FALSE,
    ret |-> <<"zx_status_t">>, name |-> <<"zx_", "object_get_info">>,
    voidList |-> FALSE,
    params |-> <<
        [tags |-> <<"handle_use">>, type |-> <<"zx_handle_t">>, name |-> "handle"],
        [tags |-> <<>>, type |-> <<"uint32_t">>, name |-> "topic"],
        [tags |-> <<>>, type |-> <<"void", "*">>, name |-> "buffer"],
        [tags |-> <<>>, type |-> <<"size_t">>, name |-> "buffer_size"],
        [tags |-> <<>>, type |-> <<"size_t", "*">>, name |-> "actual_count"],
        [tags |-> <<>>, type |-> <<"size_t", "*">>, name |-> "avail_count"] >>,
    attrs |-> <<[attr |-> "__LEAF_FN", args |-> <<>>]>> ],
  [ line |-> 245, kind |-> "function", storage |-> "extern", body |-> FALSE,
    ret |-> <<"zx_status_t">>, name |-> <<"_", "zx_", "object_get_info">>,
    voidList |-> FALSE,
    params |-> <<
        [tags |-> <<"handle_use">>, type |-> <<"zx_handle_t">>, name |-> "handle"],
        [tags |-> <<>>, type |-> <<"uint32_t">>, name |-> "topic"],
        [tags |-> <<>>, type |-> <<"void", "*">>, name |-> "buffer"],
        [tags |-> <<>>, type |-> <<"size_t">>, name |-> "buffer_size"],
        [tags |-> <<>>, type |-> <<"size_t", "*">>, name |-> "actual_count"],
        [tags |-> <<>>, type |-> <<"size_t", "*">>, name |-> "avail_count"] >>,
    attrs |-> <<[attr |-> "__LEAF_FN", args |-> <<>>]>> ],
  [ line |-> 253, kind |-> "function", storage |-> "extern", body |-> FALSE,
    ret |-> <<"zx_status_t">>, name |-> <<"zx_", "object_get_child">>,
    voidList |-> FALSE,
    params |-> <<
        [tags |-> <<"handle_use">>, type |-> <<"zx_handle_t">>, name |-> "handle"],
        [tags |-> <<>>, type |-> <<"uint64_t">>, name |-> "koid"],
        [tags |-> <<>>, type |-> <<"zx_rights_t">>, name |-> "rights"],
        [tags |-> <<>>, type |-> <<"zx_handle_t", "*">>, name |-> "out"] >>,
    attrs |-> <<[attr |-> "__NONNULL", args |-> <<4>>], [attr |-> "__LEAF_FN", args |-> <<>>]>> ],
  [ line |-> 259, kind |-> "function", storage |-> "extern", body |-> FALSE,
    ret |-> <<"zx_status_t">>, name |-> <<"_", "zx_", "object_get_child">>,
    voidList |-> FALSE,
    params |-> <<
        [tags |-> <<"handle_use">>, type |-> <<"zx_handle_t">>, name |-> "handle"],
        [tags |-> <<>>, type |-> <<"uint64_t">>, name |-> "koid"],
        [tags |-> <<>>, type |-> <<"zx_rights_t">>, name |-> "rights"],
        [tags |-> <<>>, type |-> <<"zx_handle_t", "*">>, name |-> "out"] >>,
    attrs |-> <<[attr |-> "__NONNULL", args |-> <<4>>], [attr |-> "__LEAF_FN", args |-> <<>>]>> ],
  [ line |-> 265, kind |-> "function", storage |-> "extern", body |-> FALSE,
    ret |-> <<"zx_status_t">>, name |-> <<"zx_", "object_set_profile">>,
    voidList |-> FALSE,
    params |-> <<
        [tags |-> <<"handle_use">>, type |-> <<"zx_handle_t">>, name |-> "handle"],
        [tags |-> <<"handle_use">>, type |-> <<"zx_handle_t">>, name |-> "profile"],
        [tags |-> <<>>, type |-> <<"uint32_t">>, name |-> "options"] >>,
    attrs |-> <<[attr |-> "__LEAF_FN", args |-> <<>>]>> ],
  [ line |-> 270, kind |-> "function", storage |-> "extern", body |-> FALSE,
    ret |-> <<"zx_status_t">>, name |-> <<"_", "zx_", "object_set_profile">>,
    voidList |-> FALSE,
    params |-> <<
        [tags |-> <<"handle_use">>, type |-> <<"zx_handle_t">>, name |-> "handle"],
        [tags |-> <<"handle_use">>, type |-> <<"zx_handle_t">>, name |-> "profile"],
        [tags |-> <<>>, type |-> <<"uint32_t">>, name |-> "options"] >>,
    attrs |-> <<[attr |-> "__LEAF_FN", args |-> <<>>]>> ]
  >>

\* definitions.h lines 275-355: zx_channel_create .. zx_channel_call, each followed by its _zx_ variant.
Decls_channel ==
  <<
  [ line |-> 275, kind |-> "function", storage |-> "extern", body |-> FALSE,
    ret |-> <<"zx_status_t">>, name |-> <<"zx_", "channel_create">>,
    voidList |-> FALSE,
    params |-> <<
        [tags |-> <<>>, type |-> <<"uint32_t">>, name |-> "options"],
        [tags |-> <<"handle_acquire">>, type |-> <<"zx_handle_t", "*">>, name |-> "out0"],
        [tags |-> <<"handle_acquire">>, type |-> <<"zx_handle_t", "*">>, name |-> "out1"] >>,
    attrs |-> <<[attr |-> "__NONNULL", args |-> <<2, 3>>], [attr |-> "__LEAF_FN", args |-> <<>>]>> ],
  [ line |-> 280, kind |-> "function", storage |-> "extern", body |-> FALSE,
    ret |-> <<"zx_status_t">>, name |-> <<"_", "zx_", "channel_create">>,
    voidList |-> FALSE,
    params |-> <<
        [tags |-> <<>>, type |-> <<"uint32_t">>, name |-> "options"],
        [tags |-> <<"handle_acquire">>, type |-> <<"zx_handle_t", "*">>, name |-> "out0"],
        [tags |-> <<"handle_acquire">>, type |-> <<"zx_handle_t", "*">>, name |-> "out1"] >>,
    attrs |-> <<[attr |-> "__NONNULL", args |-> <<2, 3>>], [attr |-> "__LEAF_FN", args |-> <<>>]>> ],
  [ line |-> 285, kind |-> "function", storage |-> "extern", body |-> FALSE,
    ret |-> <<"zx_status_t">>, name |-> <<"zx_", "channel_read">>,
    voidList |-> FALSE,
    params |-> <<
        [tags |-> <<"handle_use">>, type |-> <<"zx_handle_t">>, name |-> "handle"],
        [tags |-> <<>>, type |-> <<"uint32_t">>, name |-> "options"],
        [tags |-> <<>>, type |-> <<"void", "*">>, name |-> "bytes"],
        [tags |-> <<>>, type |-> <<"zx_handle_t", "*">>, name |-> "handles"],
        [tags |-> <<>>, type |-> <<"uint32_t">>, name |-> "num_bytes"],
        [tags |-> <<>>, type |-> <<"uint32_t">>, name |-> "num_handles"],
        [tags |-> <<>>, type |-> <<"uint32_t", "*">>, name |-> "actual_bytes"],
        [tags |-> <<>>, type |-> <<"uint32_t", "*">>, name |-> "actual_handles"] >>,
    attrs |-> <<[attr |-> "__LEAF_FN", args |-> <<>>]>> ],
  [ line |-> 295, kind |-> "function", storage |-> "extern", body |-> FALSE,
    ret |-> <<"zx_status_t">>, name |-> <<"_", "zx_", "channel_read">>,
    voidList |-> FALSE,
    params |-> <<
        [tags |-> <<"handle_use">>, type |-> <<"zx_handle_t">>, name |-> "handle"],
        [tags |-> <<>>, type |-> <<"uint32_t">>, name |-> "options"],
        [tags |-> <<>>, type |-> <<"void", "*">>, name |-> "bytes"],
        [tags |-> <<>>, type |-> <<"zx_handle_t", "*">>, name |-> "handles"],
        [tags |-> <<>>, type |-> <<"uint32_t">>, name |-> "num_bytes"],
        [tags |-> <<>>, type |-> <<"uint32_t">>, name |-> "num_handles"],
        [tags |-> <<>>, type |-> <<"uint32_t", "*">>, name |-> "actual_bytes"],
        [tags |-> <<>>, type |-> <<"uint32_t", "*">>, name |-> "actual_handles"] >>,
    attrs |-> <<[attr |-> "__LEAF_FN", args |-> <<>>]>> ],
  [ line |-> 305, kind |-> "function", storage |-> "extern", body |-> FALSE,
    ret |-> <<"zx_status_t">>, name |-> <<"zx_", "channel_read_etc">>,
    voidList |-> FALSE,
    params |-> <<
        [tags |-> <<"handle_use">>, type |-> <<"zx_handle_t">>, name |-> "handle"],
        [tags |-> <<>>, type |-> <<"uint32_t">>, name |-> "options"],
        [tags |-> <<>>, type |-> <<"void", "*">>, name |-> "bytes"],
        [tags |-> <<>>, type |-> <<"zx_handle_info_t", "*">>, name |-> "handles"],
        [tags |-> <<>>, type |-> <<"uint32_t">>, name |-> "num_bytes"],
        [tags |-> <<>>, type |-> <<"uint32_t">>, name |-> "num_handles"],
        [tags |-> <<>>, type |-> <<"uint32_t", "*">>, name |-> "actual_bytes"],
        [tags |-> <<>>, type |-> <<"uint32_t", "*">>, name |-> "actual_handles"] >>,
    attrs |-> <<[attr |-> "__LEAF_FN", args |-> <<>>]>> ],
  [ line |-> 315, kind |-> "function", storage |-> "extern", body |-> FALSE,
    ret |-> <<"zx_status_t">>, name |-> <<"_", "zx_", "channel_read_etc">>,
    voidList |-> FALSE,
    params |-> <<
        [tags |-> <<"handle_use">>, type |-> <<"zx_handle_t">>, name |-> "handle"],
        [tags |-> <<>>, type |-> <<"uint32_t">>, name |-> "options"],
        [tags |-> <<>>, type |-> <<"void", "*">>, name |-> "bytes"],
        [tags |-> <<>>, type |-> <<"zx_handle_info_t", "*">>, name |-> "handles"],
        [tags |-> <<>>, type |-> <<"uint32_t">>, name |-> "num_bytes"],
        [tags |-> <<>>, type |-> <<"uint32_t">>, name |-> "num_handles"],
        [tags |-> <<>>, type |-> <<"uint32_t", "*">>, name |-> "actual_bytes"],
        [tags |-> <<>>, type |-> <<"uint32_t", "*">>, name |-> "actual_handles"] >>,
    attrs |-> <<[attr |-> "__LEAF_FN", args |-> <<>>]>> ],
  [ line |-> 325, kind |-> "function", storage |-> "extern", body |-> FALSE,
    ret |-> <<"zx_status_t">>, name |-> <<"zx_", "channel_write">>,
    voidList |-> FALSE,
    params |-> <<
        [tags |-> <<"handle_use">>, type |-> <<"zx_handle_t">>, name |-> "handle"],
        [tags |-> <<>>, type |-> <<"uint32_t">>, name |-> "options"],
        [tags |-> <<>>, type |-> <<"const", "void", "*">>, name |-> "bytes"],
        [tags |-> <<>>, type |-> <<"uint32_t">>, name |-> "num_bytes"],
        [tags |-> <<>>, type |-> <<"const", "zx_handle_t", "*">>, name |-> "handles"],
        [tags |-> <<>>, type |-> <<"uint32_t">>, name |-> "num_handles"] >>,
    attrs |-> <<[attr |-> "__LEAF_FN", args |-> <<>>]>> ],
  [ line |-> 333, kind |-> "function", storage |-> "extern", body |-> FALSE,
    ret |-> <<"zx_status_t">>, name |-> <<"_", "zx_", "channel_write">>,
    voidList |-> FALSE,
    params |-> <<
        [tags |-> <<"handle_use">>, type |-> <<"zx_handle_t">>, name |-> "handle"],
        [tags |-> <<>>, type |-> <<"uint32_t">>, name |-> "options"],
        [tags |-> <<>>, type |-> <<"const", "void", "*">>, name |-> "bytes"],
        [tags |-> <<>>, type |-> <<"uint32_t">>, name |-> "num_bytes"],
        [tags |-> <<>>, type |-> <<"const", "zx_handle_t", "*">>, name |-> "handles"],
        [tags |-> <<>>, type |-> <<"uint32_t">>, name |-> "num_handles"] >>,
    attrs |-> <<[attr |-> "__LEAF_FN", args |-> <<>>]>> ],
  [ line |-> 341, kind |-> "function", storage |-> "extern", body |-> FALSE,
    ret |-> <<"zx_status_t">>, name |-> <<"zx_", "channel_call">>,
    voidList |-> FALSE,
    params |-> <<
        [tags |-> <<"handle_use">>, type |-> <<"zx_handle_t">>, name |-> "handle"],
        [tags |-> <<>>, type |-> <<"uint32_t">>, name |-> "options"],
        [tags |-> <<>>, type |-> <<"zx_time_t">>, name |-> "deadline"],
        [tags |-> <<>>, type |-> <<"const", "zx_channel_call_args_t", "*">>, name |-> "args"],
        [tags |-> <<>>, type |-> <<"uint32_t", "*">>, name |-> "actual_bytes"],
        [tags |-> <<>>, type |-> <<"uint32_t", "*">>, name |-> "actual_handles"] >>,
    attrs |-> <<[attr |-> "__NONNULL", args |-> <<5, 6>>], [attr |-> "__LEAF_FN", args |-> <<>>]>> ],
  [ line |-> 349, kind |-> "function", storage |-> "extern", body |-> FALSE,
    ret |-> <<"zx_status_t">>, name |-> <<"_", "zx_", "channel_call">>,
    voidList |-> FALSE,
    params |-> <<
        [tags |-> <<"handle_use">>, type |-> <<"zx_handle_t">>, name |-> "handle"],
        [tags |-> <<>>, type |-> <<"uint32_t">>, name |-> "options"],
        [tags |-> <<>>, type |-> <<"zx_time_t">>, name |-> "deadline"],
        [tags |-> <<>>, type |-> <<"const", "zx_channel_call_args_t", "*">>, name |-> "args"],
        [tags |-> <<>>, type |-> <<"uint32_t", "*">>, name |-> "actual_bytes"],
        [tags |-> <<>>, type |-> <<"uint32_t", "*">>, name |-> "actual_handles"] >>,
    attrs |-> <<[attr |-> "__NONNULL", args |-> <<5, 6>>], [attr |-> "__LEAF_FN", args |-> <<>>]>> ]
  >>

\* definitions.h lines 357-417: zx_socket_create .. zx_socket_shutdown, each followed by its _zx_ variant.
Decls_socket ==
  <<
  [ line |-> 357, kind |-> "function", storage |-> "extern", body |-> FALSE,
    ret |-> <<"zx_status_t">>, name |-> <<"zx_", "socket_create">>,
    voidList |-> FALSE,
    params |-> <<
        [tags |-> <<>>, type |-> <<"uint32_t">>, name |-> "options"],
        [tags |-> <<"handle_acquire">>, type |-> <<"zx_handle_t", "*">>, name |-> "out0"],
        [tags |-> <<"handle_acquire">>, type |-> <<"zx_handle_t", "*">>, name |-> "out1"] >>,
    attrs |-> <<[attr |-> "__NONNULL", args |-> <<2, 3>>], [attr |-> "__LEAF_FN", args |-> <<>>]>> ],
  [ line |-> 362, kind |-> "function", storage |-> "extern", body |-> FALSE,
    ret |-> <<"zx_status_t">>, name |-> <<"_", "zx_", "socket_create">>,
    voidList |-> FALSE,
    params |-> <<
        [tags |-> <<>>, type |-> <<"uint32_t">>, name |-> "options"],
        [tags |-> <<"handle_acquire">>, type |-> <<"zx_handle_t", "*">>, name |-> "out0"],
        [tags |-> <<"handle_acquire">>, type |-> <<"zx_handle_t", "*">>, name |-> "out1"] >>,
    attrs |-> <<[attr |-> "__NONNULL", args |-> <<2, 3>>], [attr |-> "__LEAF_FN", args |-> <<>>]>> ],
  [ line |-> 367, kind |-> "function", storage |-> "extern", body |-> FALSE,
    ret |-> <<"zx_status_t">>, name |-> <<"zx_", "socket_write">>,
    voidList |-> FALSE,
    params |-> <<
        [tags |-> <<"handle_use">>, type |-> <<"zx_handle_t">>, name |-> "handle"],
        [tags |-> <<>>, type |-> <<"uint32_t">>, name |-> "options"],
        [tags |-> <<>>, type |-> <<"const", "void", "*">>, name |-> "buffer"],
        [tags |-> <<>>, type |-> <<"size_t">>, name |-> "buffer_size"],
        [tags |-> <<>>, type |-> <<"size_t", "*">>, name |-> "actual"] >>,
    attrs |-> <<[attr |-> "__LEAF_FN", args |-> <<>>]>> ],
  [ line |-> 374, kind |-> "function", storage |-> "extern", body |-> FALSE,
    ret |-> <<"zx_status_t">>, name |-> <<"_", "zx_", "socket_write">>,
    voidList |-> FALSE,
    params |-> <<
        [tags |-> <<"handle_use">>, type |-> <<"zx_handle_t">>, name |-> "handle"],
        [tags |-> <<>>, type |-> <<"uint32_t">>, name |-> "options"],
        [tags |-> <<>>, type |-> <<"const", "void", "*">>, name |-> "buffer"],
        [tags |-> <<>>, type |-> <<"size_t">>, name |-> "buffer_size"],
        [tags |-> <<>>, type |-> <<"size_t", "*">>, name |-> "actual"] >>,
    attrs |-> <<[attr |-> "__LEAF_FN", args |-> <<>>]>> ],
  [ line |-> 381, kind |-> "function", storage |-> "extern", body |-> FALSE,
    ret |-> <<"zx_status_t">>, name |-> <<"zx_", "socket_read">>,
    voidList |-> FALSE,
    params |-> <<
        [tags |-> <<"handle_use">>, type |-> <<"zx_handle_t">>, name |-> "handle"],
        [tags |-> <<>>, type |-> <<"uint32_t">>, name |-> "options"],
        [tags |-> <<>>, type |-> <<"void", "*">>, name |-> "buffer"],
        [tags |-> <<>>, type |-> <<"size_t">>, name |-> "buffer_size"],
        [tags |-> <<>>, type |-> <<"size_t", "*">>, name |-> "actual"] >>,
    attrs |-> <<[attr |-> "__LEAF_FN", args |-> <<>>]>> ],
  [ line |-> 388, kind |-> "function", storage |-> "extern", body |-> FALSE,
    ret |-> <<"zx_status_t">>, name |-> <<"_", "zx_", "socket_read">>,
    voidList |-> FALSE,
    params |-> <<
        [tags |-> <<"handle_use">>, type |-> <<"zx_handle_t">>, name |-> "handle"],
        [tags |-> <<>>, type |-> <<"uint32_t">>, name |-> "options"],
        [tags |-> <<>>, type |-> <<"void", "*">>, name |-> "buffer"],
        [tags |-> <<>>, type |-> <<"size_t">>, name |-> "buffer_size"],
        [tags |-> <<>>, type |-> <<"size_t", "*">>, name |-> "actual"] >>,
    attrs |-> <<[attr |-> "__LEAF_FN", args |-> <<>>]>> ],
  [ line |-> 395, kind |-> "function", storage |-> "extern", body |-> FALSE,
    ret |-> <<"zx_status_t">>, name |-> <<"zx_", "socket_share">>,
    voidList |-> FALSE,
    params |-> <<
        [tags |-> <<"handle_use">>, type |-> <<"zx_handle_t">>, name |-> "handle"],
        [tags |-> <<"handle_use">>, type |-> <<"zx_handle_t">>, name |-> "socket_to_share"] >>,
    attrs |-> <<[attr |-> "__LEAF_FN", args |-> <<>>]>> ],
  [ line |-> 399, kind |-> "function", storage |-> "extern", body |-> FALSE,
    ret |-> <<"zx_status_t">>, name |-> <<"_", "zx_", "socket_share">>,
    voidList |-> FALSE,
    params |-> <<
        [tags |-> <<"handle_use">>, type |-> <<"zx_handle_t">>, name |-> "handle"],
        [tags |-> <<"handle_use">>, type |-> <<"zx_handle_t">>, name |-> "socket_to_share"] >>,
    attrs |-> <<[attr |-> "__LEAF_FN", args |-> <<>>]>> ],
  [ line |-> 403, kind |-> "function", storage |-> "extern", body |-> FALSE,
    ret |-> <<"zx_status_t">>, name |-> <<"zx_", "socket_accept">>,
    voidList |-> FALSE,
    params |-> <<
        [tags |-> <<"handle_use">>, type |-> <<"zx_handle_t">>, name |-> "handle"],
        [tags |-> <<"handle_acquire">>, type |-> <<"zx_handle_t", "*">>, name |-> "out_socket"] >>,
    attrs |-> <<[attr |-> "__NONNULL", args |-> <<2>>], [attr |-> "__LEAF_FN", args |-> <<>>]>> ],
  [ line |-> 407, kind |-> "function", storage |-> "extern", body |-> FALSE,
    ret |-> <<"zx_status_t">>, name |-> <<"_", "zx_", "socket_accept">>,
    voidList |-> FALSE,
    params |-> <<
        [tags |-> <<"handle_use">>, type |-> <<"zx_handle_t">>, name |-> "handle"],
        [tags |-> <<"handle_acquire">>, type |-> <<"zx_handle_t", "*">>, name |-> "out_socket"] >>,
    attrs |-> <<[attr |-> "__NONNULL", args |-> <<2>>], [attr |-> "__LEAF_FN", args |-> <<>>]>> ],
  [ line |-> 411, kind |-> "function", storage |-> "extern", body |-> FALSE,
    ret |-> <<"zx_status_t">>, name |-> <<"zx_", "socket_shutdown">>,
    voidList |-> FALSE,
    params |-> <<
        [tags |-> <<"handle_use">>, type |-> <<"zx_handle_t">>, name |-> "handle"],
        [tags |-> <<>>, type |-> <<"uint32_t">>, name |-> "options"] >>,
    attrs |-> <<[attr |-> "__LEAF_FN", args |-> <<>>]>> ],
  [ line |-> 415, kind |-> "function", storage |-> "extern", body |-> FALSE,
    ret |-> <<"zx_status_t">>, name |-> <<"_", "zx_", "socket_shutdown">>,
    voidList |-> FALSE,
    params |-> <<
        [tags |-> <<"handle_use">>, type |-> <<"zx_handle_t">>, name |-> "handle"],
        [tags |-> <<>>, type |-> <<"uint32_t">>, name |-> "options"] >>,
    attrs |-> <<[attr |-> "__LEAF_FN", args |-> <<>>]>> ]
  >>

\* definitions.h lines 419-481: zx_thread_exit .. zx_thread_set_priority, each followed by its _zx_ variant.
Decls_thread ==
  <<
  [ line |-> 419, kind |-> "function", storage |-> "extern", body |-> FALSE,
    ret |-> <<"void">>, name |-> <<"zx_", "thread_exit">>,
    voidList |-> TRUE,
    params |-> <<>>,
    attrs |-> <<[attr |-> "__LEAF_FN", args |-> <<>>], [attr |-> "__NO_RETURN", args |-> <<>>]>> ],
  [ line |-> 422, kind |-> "function", storage |-> "extern", body |-> FALSE,
    ret |-> <<"void">>, name |-> <<"_", "zx_", "thread_exit">>,
    voidList |-> TRUE,
    params |-> <<>>,
    attrs |-> <<[attr |-> "__LEAF_FN", args |-> <<>>], [attr |-> "__NO_RETURN", args |-> <<>>]>> ],
  [ line |-> 425, kind |-> "function", storage |-> "extern", body |-> FALSE,
    ret |-> <<"zx_status_t">>, name |-> <<"zx_", "thread_create">>,
    voidList |-> FALSE,
    params |-> <<
        [tags |-> <<"handle_use">>, type |-> <<"zx_handle_t">>, name |-> "process"],
        [tags |-> <<>>, type |-> <<"const", "char", "*">>, name |-> "name"],
        [tags |-> <<>>, type |-> <<"size_t">>, name |-> "name_size"],
        [tags |-> <<>>, type |-> <<"uint32_t">>, name |-> "options"],
        [tags |-> <<"handle_acquire">>, type |-> <<"zx_handle_t", "*">>, name |-> "out"] >>,
    attrs |-> <<[attr |-> "__NONNULL", args |-> <<5>>], [attr |-> "__LEAF_FN", args |-> <<>>]>> ],
  [ line |-> 432, kind |-> "function", storage |-> "extern", body |-> FALSE,
    ret |-> <<"zx_status_t">>, name |-> <<"_", "zx_", "thread_create">>,
    voidList |-> FALSE,
    params |-> <<
        [tags |-> <<"handle_use">>, type |-> <<"zx_handle_t">>, name |-> "process"],
        [tags |-> <<>>, type |-> <<"const", "char", "*">>, name |-> "name"],
        [tags |-> <<>>, type |-> <<"size_t">>, name |-> "name_size"],
        [tags |-> <<>>, type |-> <<"uint32_t">>, name |-> "options"],
        [tags |-> <<"handle_acquire">>, type |-> <<"zx_handle_t", "*">>, name |-> "out"] >>,
    attrs |-> <<[attr |-> "__NONNULL", args |-> <<5>>], [attr |-> "__LEAF_FN", args |-> <<>>]>> ],
  [ line |-> 439, kind |-> "function", storage |-> "extern", body |-> FALSE,
    ret |-> <<"zx_status_t">>, name |-> <<"zx_", "thread_start">>,
    voidList |-> FALSE,
    params |-> <<
        [tags |-> <<"handle_use">>, type |-> <<"zx_handle_t">>, name |-> "handle"],
        [tags |-> <<>>, type |-> <<"zx_vaddr_t">>, name |-> "thread_entry"],
        [tags |-> <<>>, type |-> <<"zx_vaddr_t">>, name |-> "stack"],
        [tags |-> <<>>, type |-> <<"uintptr_t">>, name |-> "arg1"],
        [tags |-> <<>>, type |-> <<"uintptr_t">>, name |-> "arg2"] >>,
    attrs |-> <<[attr |-> "__LEAF_FN", args |-> <<>>]>> ],
  [ line |-> 446, kind |-> "function", storage |-> "extern", body |-> FALSE,
    ret |-> <<"zx_status_t">>, name |-> <<"_", "zx_", "thread_start">>,
    voidList |-> FALSE,
    params |-> <<
        [tags |-> <<"handle_use">>, type |-> <<"zx_handle_t">>, name |-> "handle"],
        [tags |-> <<>>, type |-> <<"zx_vaddr_t">>, name |-> "thread_entry"],
        [tags |-> <<>>, type |-> <<"zx_vaddr_t">>, name |-> "stack"],
        [tags |-> <<>>, type |-> <<"uintptr_t">>, name |-> "arg1"],
        [tags |-> <<>>, type |-> <<"uintptr_t">>, name |-> "arg2"] >>,
    attrs |-> <<[attr |-> "__LEAF_FN", args |-> <<>>]>> ],
  [ line |-> 453, kind |-> "function", storage |-> "extern", body |-> FALSE,
    ret |-> <<"zx_status_t">>, name |-> <<"zx_", "thread_read_state">>,
    voidList |-> FALSE,
    params |-> <<
        [tags |-> <<"handle_use">>, type |-> <<"zx_handle_t">>, name |-> "handle"],
        [tags |-> <<>>, type |-> <<"uint32_t">>, name |-> "kind"],
        [tags |-> <<>>, type |-> <<"void", "*">>, name |-> "buffer"],
        [tags |-> <<>>, type |-> <<"size_t">>, name |-> "buffer_size"] >>,
    attrs |-> <<[attr |-> "__LEAF_FN", args |-> <<>>]>> ],
  [ line |-> 459, kind |-> "function", storage |-> "extern", body |-> FALSE,
    ret |-> <<"zx_status_t">>, name |-> <<"_", "zx_", "thread_read_state">>,
    voidList |-> FALSE,
    params |-> <<
        [tags |-> <<"handle_use">>, type |-> <<"zx_handle_t">>, name |-> "handle"],
        [tags |-> <<>>, type |-> <<"uint32_t">>, name |-> "kind"],
        [tags |-> <<>>, type |-> <<"void", "*">>, name |-> "buffer"],
        [tags |-> <<>>, type |-> <<"size_t">>, name |-> "buffer_size"] >>,
    attrs |-> <<[attr |-> "__LEAF_FN", args |-> <<>>]>> ],
  [ line |-> 465, kind |-> "function", storage |-> "extern", body |-> FALSE,
    ret |-> <<"zx_status_t">>, name |-> <<"zx_", "thread_write_state">>,
    voidList |-> FALSE,
    params |-> <<
        [tags |-> <<"handle_use">>, type |-> <<"zx_handle_t">>, name |-> "handle"],
        [tags |-> <<>>, type |-> <<"uint32_t">>, name |-> "kind"],
        [tags |-> <<>>, type |-> <<"const", "void", "*">>, name |-> "buffer"],
        [tags |-> <<>>, type |-> <<"size_t">>, name |-> "buffer_size"] >>,
    attrs |-> <<[attr |-> "__LEAF_FN", args |-> <<>>]>> ],
  [ line |-> 471, kind |-> "function", storage |-> "extern", body |-> FALSE,
    ret |-> <<"zx_status_t">>, name |-> <<"_", "zx_", "thread_write_state">>,
    voidList |-> FALSE,
    params |-> <<
        [tags |-> <<"handle_use">>, type |-> <<"zx_handle_t">>, name |-> "handle"],
        [tags |-> <<>>, type |-> <<"uint32_t">>, name |-> "kind"],
        [tags |-> <<>>, type |-> <<"const", "void", "*">>, name |-> "buffer"],
        [tags |-> <<>>, type |-> <<"size_t">>, name |-> "buffer_size"] >>,
    attrs |-> <<[attr |-> "__LEAF_FN", args |-> <<>>]>> ],
  [ line |-> 477, kind |-> "function", storage |-> "extern", body |-> FALSE,
    ret |-> <<"zx_status_t">>, name |-> <<"zx_", "thread_set_priority">>,
    voidList |-> FALSE,
    params |-> <<
        [tags |-> <<>>, type |-> <<"int32_t">>, name |-> "prio"] >>,
    attrs |-> <<[attr |-> "__LEAF_FN", args |-> <<>>]>> ],
  [ line |-> 480, kind |-> "function", storage |-> "extern", body |-> FALSE,
    ret |-> <<"zx_status_t">>, name |-> <<"_", "zx_", "thread_set_priority">>,
    voidList |-> FALSE,
    params |-> <<
        [tags |-> <<>>, type |-> <<"int32_t">>, name |-> "prio"] >>,
    attrs |-> <<[attr |-> "__LEAF_FN", args |-> <<>>]>> ]
  >>

\* definitions.h lines 483-547: zx_process_exit .. zx_process_write_memory, each followed by its _zx_ variant.
Decls_process ==
  <<
  [ line |-> 483, kind |-> "function", storage |-> "extern", body |-> FALSE,
    ret |-> <<"void">>, name |-> <<"zx_", "process_exit">>,
    voidList |-> FALSE,
    params |-> <<
        [tags |-> <<>>, type |-> <<"int64_t">>, name |-> "retcode"] >>,
    attrs |-> <<[attr |-> "__LEAF_FN", args |-> <<>>], [attr |-> "__NO_RETURN", args |-> <<>>]>> ],
  [ line |-> 486, kind |-> "function", storage |-> "extern", body |-> FALSE,
    ret |-> <<"void">>, name |-> <<"_", "zx_", "process_exit">>,
    voidList |-> FALSE,
    params |-> <<
        [tags |-> <<>>, type |-> <<"int64_t">>, name |-> "retcode"] >>,
    attrs |-> <<[attr |-> "__LEAF_FN", args |-> <<>>], [attr |-> "__NO_RETURN", args |-> <<>>]>> ],
  [ line |-> 489, kind |-> "function", storage |-> "extern", body |-> FALSE,
    ret |-> <<"zx_status_t">>, name |-> <<"zx_", "process_create">>,
    voidList |-> FALSE,
    params |-> <<
        [tags |-> <<"handle_use">>, type |-> <<"zx_handle_t">>, name |-> "job"],
        [tags |-> <<>>, type |-> <<"const", "char", "*">>, name |-> "name"],
        [tags |-> <<>>, type |-> <<"size_t">>, name |-> "name_size"],
        [tags |-> <<>>, type |-> <<"uint32_t">>, name |-> "options"],
        [tags |-> <<"handle_acquire">>, type |-> <<"zx_handle_t", "*">>, name |-> "proc_handle"],
        [tags |-> <<"handle_acquire">>, type |-> <<"zx_handle_t", "*">>, name |-> "vmar_handle"] >>,
    attrs |-> <<[attr |-> "__NONNULL", args |-> <<5, 6>>], [attr |-> "__LEAF_FN", args |-> <<>>]>> ],
  [ line |-> 497, kind |-> "function", storage |-> "extern", body |-> FALSE,
    ret |-> <<"zx_status_t">>, name |-> <<"_", "zx_", "process_create">>,
    voidList |-> FALSE,
    params |-> <<
        [tags |-> <<"handle_use">>, type |-> <<"zx_handle_t">>, name |-> "job"],
        [tags |-> <<>>, type |-> <<"const", "char", "*">>, name |-> "name"],
        [tags |-> <<>>, type |-> <<"size_t">>, name |-> "name_size"],
        [tags |-> <<>>, type |-> <<"uint32_t">>, name |-> "options"],
        [tags |-> <<"handle_acquire">>, type |-> <<"zx_handle_t", "*">>, name |-> "proc_handle"],
        [tags |-> <<"handle_acquire">>, type |-> <<"zx_handle_t", "*">>, name |-> "vmar_handle"] >>,
    attrs |-> <<[attr |-> "__NONNULL", args |-> <<5, 6>>], [attr |-> "__LEAF_FN", args |-> <<>>]>> ],
  [ line |-> 505, kind |-> "function", storage |-> "extern", body |-> FALSE,
    ret |-> <<"zx_status_t">>, name |-> <<"zx_", "process_start">>,
    voidList |-> FALSE,
    params |-> <<
        [tags |-> <<"handle_use">>, type |-> <<"zx_handle_t">>, name |-> "handle"],
        [tags |-> <<"handle_use">>, type |-> <<"zx_handle_t">>, name |-> "thread"],
        [tags |-> <<>>, type |-> <<"zx_vaddr_t">>, name |-> "entry"],
        [tags |-> <<>>, type |-> <<"zx_vaddr_t">>, name |-> "stack"],
        [tags |-> <<"handle_release_always">>, type |-> <<"zx_handle_t">>, name |-> "arg1"],
        [tags |-> <<>>, type |-> <<"uintptr_t">>, name |-> "arg2"] >>,
    attrs |-> <<[attr |-> "__LEAF_FN", args |-> <<>>]>> ],
  [ line |-> 513, kind |-> "function", storage |-> "extern", body |-> FALSE,
    ret |-> <<"zx_status_t">>, name |-> <<"_", "zx_", "process_start">>,
    voidList |-> FALSE,
    params |-> <<
        [tags |-> <<"handle_use">>, type |-> <<"zx_handle_t">>, name |-> "handle"],
        [tags |-> <<"handle_use">>, type |-> <<"zx_handle_t">>, name |-> "thread"],
        [tags |-> <<>>, type |-> <<"zx_vaddr_t">>, name |-> "entry"],
        [tags |-> <<>>, type |-> <<"zx_vaddr_t">>, name |-> "stack"],
        [tags |-> <<"handle_release_always">>, type |-> <<"zx_handle_t">>, name |-> "arg1"],
        [tags |-> <<>>, type |-> <<"uintptr_t">>, name |-> "arg2"] >>,
    attrs |-> <<[attr |-> "__LEAF_FN", args |-> <<>>]>> ],
  [ line |-> 521, kind |-> "function", storage |-> "extern", body |-> FALSE,
    ret |-> <<"zx_status_t">>, name |-> <<"zx_", "process_read_memory">>,
    voidList |-> FALSE,
    params |-> <<
        [tags |-> <<"handle_use">>, type |-> <<"zx_handle_t">>, name |-> "handle"],
        [tags |-> <<>>, type |-> <<"zx_vaddr_t">>, name |-> "vaddr"],
        [tags |-> <<>>, type |-> <<"void", "*">>, name |-> "buffer"],
        [tags |-> <<>>, type |-> <<"size_t">>, name |-> "buffer_size"],
        [tags |-> <<>>, type |-> <<"size_t", "*">>, name |-> "actual"] >>,
    attrs |-> <<[attr |-> "__NONNULL", args |-> <<5>>], [attr |-> "__LEAF_FN", args |-> <<>>]>> ],
  [ line |-> 528, kind |-> "function", storage |-> "extern", body |-> FALSE,
    ret |-> <<"zx_status_t">>, name |-> <<"_", "zx_", "process_read_memory">>,
    voidList |-> FALSE,
    params |-> <<
        [tags |-> <<"handle_use">>, type |-> <<"zx_handle_t">>, name |-> "handle"],
        [tags |-> <<>>, type |-> <<"zx_vaddr_t">>, name |-> "vaddr"],
        [tags |-> <<>>, type |-> <<"void", "*">>, name |-> "buffer"],
        [tags |-> <<>>, type |-> <<"size_t">>, name |-> "buffer_size"],
        [tags |-> <<>>, type |-> <<"size_t", "*">>, name |-> "actual"] >>,
    attrs |-> <<[attr |-> "__NONNULL", args |-> <<5>>], [attr |-> "__LEAF_FN", args |-> <<>>]>> ],
  [ line |-> 535, kind |-> "function", storage |-> "extern", body |-> FALSE,
    ret |-> <<"zx_status_t">>, name |-> <<"zx_", "process_write_memory">>,
    voidList |-> FALSE,
    params |-> <<
        [tags |-> <<"handle_use">>, type |-> <<"zx_handle_t">>, name |-> "handle"],
        [tags |-> <<>>, type |-> <<"zx_vaddr_t">>, name |-> "vaddr"],
        [tags |-> <<>>, type |-> <<"const", "void", "*">>, name |-> "buffer"],
        [tags |-> <<>>, type |-> <<"size_t">>, name |-> "buffer_size"],
        [tags |-> <<>>, type |-> <<"size_t", "*">>, name |-> "actual"] >>,
    attrs |-> <<[attr |-> "__NONNULL", args |-> <<5>>], [attr |-> "__LEAF_FN", args |-> <<>>]>> ],
  [ line |-> 542, kind |-> "function", storage |-> "extern", body |-> FALSE,
    ret |-> <<"zx_status_t">>, name |-> <<"_", "zx_", "process_write_memory">>,
    voidList |-> FALSE,
    params |-> <<
        [tags |-> <<"handle_use">>, type |-> <<"zx_handle_t">>, name |-> "handle"],
        [tags |-> <<>>, type |-> <<"zx_vaddr_t">>, name |-> "vaddr"],
        [tags |-> <<>>, type |-> <<"const", "void", "*">>, name |-> "buffer"],
        [tags |-> <<>>, type |-> <<"size_t">>, name |-> "buffer_size"],
        [tags |-> <<>>, type |-> <<"size_t", "*">>, name |-> "actual"] >>,
    attrs |-> <<[attr |-> "__NONNULL", args |-> <<5>>], [attr |-> "__LEAF_FN", args |-> <<>>]>> ]
  >>

\* definitions.h lines 549-571: zx_job_create .. zx_job_set_policy, each followed by its _zx_ variant.
Decls_job ==
  <<
  [ line |-> 549, kind |-> "function", storage |-> "extern", body |-> FALSE,
    ret |-> <<"zx_status_t">>, name |-> <<"zx_", "job_create">>,
    voidList |-> FALSE,
    params |-> <<
        [tags |-> <<"handle_use">>, type |-> <<"zx_handle_t">>, name |-> "parent_job"],
        [tags |-> <<>>, type |-> <<"uint32_t">>, name |-> "options"],
        [tags |-> <<"handle_acquire">>, type |-> <<"zx_handle_t", "*">>, name |-> "out"] >>,
    attrs |-> <<[attr |-> "__NONNULL", args |-> <<3>>], [attr |-> "__LEAF_FN", args |-> <<>>]>> ],
  [ line |-> 554, kind |-> "function", storage |-> "extern", body |-> FALSE,
    ret |-> <<"zx_status_t">>, name |-> <<"_", "zx_", "job_create">>,
    voidList |-> FALSE,
    params |-> <<
        [tags |-> <<"handle_use">>, type |-> <<"zx_handle_t">>, name |-> "parent_job"],
        [tags |-> <<>>, type |-> <<"uint32_t">>, name |-> "options"],
        [tags |-> <<"handle_acquire">>, type |-> <<"zx_handle_t", "*">>, name |-> "out"] >>,
    attrs |-> <<[attr |-> "__NONNULL", args |-> <<3>>], [attr |-> "__LEAF_FN", args |-> <<>>]>> ],
  [ line |-> 559, kind |-> "function", storage |-> "extern", body |-> FALSE,
    ret |-> <<"zx_status_t">>, name |-> <<"zx_", "job_set_policy">>,
    voidList |-> FALSE,
    params |-> <<
        [tags |-> <<"handle_use">>, type |-> <<"zx_handle_t">>, name |-> "handle"],
        [tags |-> <<>>, type |-> <<"uint32_t">>, name |-> "options"],
        [tags |-> <<>>, type |-> <<"uint32_t">>, name |-> "topic"],
        [tags |-> <<>>, type |-> <<"const", "void", "*">>, name |-> "policy"],
        [tags |-> <<>>, type |-> <<"uint32_t">>, name |-> "count"] >>,
    attrs |-> <<[attr |-> "__LEAF_FN", args |-> <<>>]>> ],
  [ line |-> 566, kind |-> "function", storage |-> "extern", body |-> FALSE,
    ret |-> <<"zx_status_t">>, name |-> <<"_", "zx_", "job_set_policy">>,
    voidList |-> FALSE,
    params |-> <<
        [tags |-> <<"handle_use">>, type |-> <<"zx_handle_t">>, name |-> "handle"],
        [tags |-> <<>>, type |-> <<"uint32_t">>, name |-> "options"],
        [tags |-> <<>>, type |-> <<"uint32_t">>, name |-> "topic"],
        [tags |-> <<>>, type |-> <<"const", "void", "*">>, name |-> "policy"],
        [tags |-> <<>>, type |-> <<"uint32_t">>, name |-> "count"] >>,
    attrs |-> <<[attr |-> "__LEAF_FN", args |-> <<>>]>> ]
  >>

\* definitions.h lines 573-609: zx_task_bind_exception_port .. zx_task_resume_from_exception, each followed by its _zx_ variant.
Decls_task ==
  <<
  [ line |-> 573, kind |-> "function", storage |-> "extern", body |-> FALSE,
    ret |-> <<"zx_status_t">>, name |-> <<"zx_", "task_bind_exception_port">>,
    voidList |-> FALSE,
    params |-> <<
        [tags |-> <<"handle_use">>, type |-> <<"zx_handle_t">>, name |-> "handle"],
        [tags |-> <<"handle_use">>, type |-> <<"zx_handle_t">>, name |-> "port"],
        [tags |-> <<>>, type |-> <<"uint64_t">>, name |-> "key"],
        [tags |-> <<>>, type |-> <<"uint32_t">>, name |-> "options"] >>,
    attrs |-> <<[attr |-> "__LEAF_FN", args |-> <<>>]>> ],
  [ line |-> 579, kind |-> "function", storage |-> "extern", body |-> FALSE,
    ret |-> <<"zx_status_t">>, name |-> <<"_", "zx_", "task_bind_exception_port">>,
    voidList |-> FALSE,
    params |-> <<
        [tags |-> <<"handle_use">>, type |-> <<"zx_handle_t">>, name |-> "handle"],
        [tags |-> <<"handle_use">>, type |-> <<"zx_handle_t">>, name |-> "port"],
        [tags |-> <<>>, type |-> <<"uint64_t">>, name |-> "key"],
        [tags |-> <<>>, type |-> <<"uint32_t">>, name |-> "options"] >>,
    attrs |-> <<[attr |-> "__LEAF_FN", args |-> <<>>]>> ],
  [ line |-> 585, kind |-> "function", storage |-> "extern", body |-> FALSE,
    ret |-> <<"zx_status_t">>, name |-> <<"zx_", "task_suspend">>,
    voidList |-> FALSE,
    params |-> <<
        [tags |-> <<"handle_use">>, type |-> <<"zx_handle_t">>, name |-> "handle"],
        [tags |-> <<"handle_acquire">>, type |-> <<"zx_handle_t", "*">>, name |-> "token"] >>,
    attrs |-> <<[attr |-> "__NONNULL", args |-> <<2>>], [attr |-> "__LEAF_FN", args |-> <<>>]>> ],
  [ line |-> 589, kind |-> "function", storage |-> "extern", body |-> FALSE,
    ret |-> <<"zx_status_t">>, name |-> <<"_", "zx_", "task_suspend">>,
    voidList |-> FALSE,
    params |-> <<
        [tags |-> <<"handle_use">>, type |-> <<"zx_handle_t">>, name |-> "handle"],
        [tags |-> <<"handle_acquire">>, type |-> <<"zx_handle_t", "*">>, name |-> "token"] >>,
    attrs |-> <<[attr |-> "__NONNULL", args |-> <<2>>], [attr |-> "__LEAF_FN", args |-> <<>>]>> ],
  [ line |-> 593, kind |-> "function", storage |-> "extern", body |-> FALSE,
    ret |-> <<"zx_status_t">>, name |-> <<"zx_", "task_suspend_token">>,
    voidList |-> FALSE,
    params |-> <<
        [tags |-> <<"handle_use">>, type |-> <<"zx_handle_t">>, name |-> "handle"],
        [tags |-> <<"handle_acquire">>, type |-> <<"zx_handle_t", "*">>, name |-> "token"] >>,
    attrs |-> <<[attr |-> "__NONNULL", args |-> <<2>>], [attr |-> "__LEAF_FN", args |-> <<>>]>> ],
  [ line |-> 597, kind |-> "function", storage |-> "extern", body |-> FALSE,
    ret |-> <<"zx_status_t">>, name |-> <<"_", "zx_", "task_suspend_token">>,
    voidList |-> FALSE,
    params |-> <<
        [tags |-> <<"handle_use">>, type |-> <<"zx_handle_t">>, name |-> "handle"],
        [tags |-> <<"handle_acquire">>, type |-> <<"zx_handle_t", "*">>, name |-> "token"] >>,
    attrs |-> <<[attr |-> "__NONNULL", args |-> <<2>>], [attr |-> "__LEAF_FN", args |-> <<>>]>> ],
  [ line |-> 601, kind |-> "function", storage |-> "extern", body |-> FALSE,
    ret |-> <<"zx_status_t">>, name |-> <<"zx_", "task_resume_from_exception">>,
    voidList |-> FALSE,
    params |-> <<
        [tags |-> <<"handle_use">>, type |-> <<"zx_handle_t">>, name |-> "handle"],
        [tags |-> <<"handle_use">>, type |-> <<"zx_handle_t">>, name |-> "port"],
        [tags |-> <<>>, type |-> <<"uint32_t">>, name |-> "options"] >>,
    attrs |-> <<[attr |-> "__LEAF_FN", args |-> <<>>]>> ],
  [ line |-> 606, kind |-> "function", storage |-> "extern", body |-> FALSE,
    ret |-> <<"zx_status_t">>, name |-> <<"_", "zx_", "task_resume_from_exception">>,
    voidList |-> FALSE,
    params |-> <<
        [tags |-> <<"handle_use">>, type |-> <<"zx_handle_t">>, name |-> "handle"],
        [tags |-> <<"handle_use">>, type |-> <<"zx_handle_t">>, name |-> "port"],
        [tags |-> <<>>, type |-> <<"uint32_t">>, name |-> "options"] >>,
    attrs |-> <<[attr |-> "__LEAF_FN", args |-> <<>>]>> ]
  >>

\* Decls_task_kill as a slip of the generator would leave it: the handle of zx_task_kill has lost its ownership tag.
Decls_task_kill_Untagged ==
  <<
  [ line |-> 611, kind |-> "function", storage |-> "extern", body |-> FALSE,
    ret |-> <<"zx_status_t">>, name |-> <<"zx_", "task_kill">>,
    voidList |-> FALSE,
    params |-> <<
        [tags |-> <<>>, type |-> <<"zx_handle_t">>, name |-> "handle"] >>,
    attrs |-> <<[attr |-> "__LEAF_FN", args |-> <<>>]>> ],
  [ line |-> 614, kind |-> "function", storage |-> "extern", body |-> FALSE,
    ret |-> <<"zx_status_t">>, name |-> <<"_", "zx_", "task_kill">>,
    voidList |-> FALSE,
    params |-> <<
        [tags |-> <<>>, type |-> <<"zx_handle_t">>, name |-> "handle"] >>,
    attrs |-> <<[attr |-> "__LEAF_FN", args |-> <<>>]>> ]
  >>

\* Decls_task_kill as a slip of the generator would leave it: the handle of zx_task_kill is tagged handle_release.
Decls_task_kill_Release ==
  <<
  [ line |-> 611, kind |-> "function", storage |-> "extern", body |-> FALSE,
    ret |-> <<"zx_status_t">>, name |-> <<"zx_", "task_kill">>,
    voidList |-> FALSE,
    params |-> <<
        [tags |-> <<"handle_release">>, type |-> <<"zx_handle_t">>, name |-> "handle"] >>,
    attrs |-> <<[attr |-> "__LEAF_FN", args |-> <<>>]>> ],
  [ line |-> 614, kind |-> "function", storage |-> "extern", body |-> FALSE,
    ret |-> <<"zx_status_t">>, name |-> <<"_", "zx_", "task_kill">>,
    voidList |-> FALSE,
    params |-> <<
        [tags |-> <<"handle_release">>, type |-> <<"zx_handle_t">>, name |-> "handle"] >>,
    attrs |-> <<[attr |-> "__LEAF_FN", args |-> <<>>]>> ]
  >>

\* definitions.h lines 611-615: zx_task_kill, each followed by its _zx_ variant.
Decls_task_kill ==
  <<
  [ line |-> 611, kind |-> "function", storage |-> "extern", body |-> FALSE,
    ret |-> <<"zx_status_t">>, name |-> <<"zx_", "task_kill">>,
    voidList |-> FALSE,
    params |-> <<
        [tags |-> <<"handle_use">>, type |-> <<"zx_handle_t">>, name |-> "handle"] >>,
    attrs |-> <<[attr |-> "__LEAF_FN", args |-> <<>>]>> ],
  [ line |-> 614, kind |-> "function", storage |-> "extern", body |-> FALSE,
    ret |-> <<"zx_status_t">>, name |-> <<"_", "zx_", "task_kill">>,
    voidList |-> FALSE,
    params |-> <<
        [tags |-> <<"handle_use">>, type |-> <<"zx_handle_t">>, name |-> "handle"] >>,
    attrs |-> <<[attr |-> "__LEAF_FN", args |-> <<>>]>> ]
  >>

\* definitions.h lines 617-623: zx_event_create, each followed by its _zx_ variant.
Decls_event ==
  <<
  [ line |-> 617, kind |-> "function", storage |-> "extern", body |-> FALSE,
    ret |-> <<"zx_status_t">>, name |-> <<"zx_", "event_create">>,
    voidList |-> FALSE,
    params |-> <<
        [tags |-> <<>>, type |-> <<"uint32_t">>, name |-> "options"],
        [tags |-> <<"handle_acquire">>, type |-> <<"zx_handle_t", "*">>, name |-> "out"] >>,
    attrs |-> <<[attr |-> "__NONNULL", args |-> <<2>>], [attr |-> "__LEAF_FN", args |-> <<>>]>> ],
  [ line |-> 621, kind |-> "function", storage |-> "extern", body |-> FALSE,
    ret |-> <<"zx_status_t">>, name |-> <<"_", "zx_", "event_create">>,
    voidList |-> FALSE,
    params |-> <<
        [tags |-> <<>>, type |-> <<"uint32_t">>, name |-> "options"],
        [tags |-> <<"handle_acquire">>, type |-> <<"zx_handle_t", "*">>, name |-> "out"] >>,
    attrs |-> <<[attr |-> "__NONNULL", args |-> <<2>>], [attr |-> "__LEAF_FN", args |-> <<>>]>> ]
  >>

\* Decls_eventpair as a slip of the generator would leave it: __NONNULL counts the parameters from 0, so it lists 1 and 2.
Decls_eventpair_NonnullOffByOne ==
  <<
  [ line |-> 625, kind |-> "function", storage |-> "extern", body |-> FALSE,
    ret |-> <<"zx_status_t">>, name |-> <<"zx_", "eventpair_create">>,
    voidList |-> FALSE,
    params |-> <<
        [tags |-> <<>>, type |-> <<"uint32_t">>, name |-> "options"],
        [tags |-> <<"handle_acquire">>, type |-> <<"zx_handle_t", "*">>, name |-> "out0"],
        [tags |-> <<"handle_acquire">>, type |-> <<"zx_handle_t", "*">>, name |-> "out1"] >>,
    attrs |-> <<[attr |-> "__NONNULL", args |-> <<1, 2>>], [attr |-> "__LEAF_FN", args |-> <<>>]>> ],
  [ line |-> 630, kind |-> "function", storage |-> "extern", body |-> FALSE,
    ret |-> <<"zx_status_t">>, name |-> <<"_", "zx_", "eventpair_create">>,
    voidList |-> FALSE,
    params |-> <<
        [tags |-> <<>>, type |-> <<"uint32_t">>, name |-> "options"],
        [tags |-> <<"handle_acquire">>, type |-> <<"zx_handle_t", "*">>, name |-> "out0"],
        [tags |-> <<"handle_acquire">>, type |-> <<"zx_handle_t", "*">>, name |-> "out1"] >>,
    attrs |-> <<[attr |-> "__NONNULL", args |-> <<1, 2>>], [attr |-> "__LEAF_FN", args |-> <<>>]>> ]
  >>

\* Decls_eventpair as a slip of the generator would leave it: the private variant has lost its __NONNULL attribute.
Decls_eventpair_PrivateNoNonnull ==
  <<
  [ line |-> 625, kind |-> "function", storage |-> "extern", body |-> FALSE,
    ret |-> <<"zx_status_t">>, name |-> <<"zx_", "eventpair_create">>,
    voidList |-> FALSE,
    params |-> <<
        [tags |-> <<>>, type |-> <<"uint32_t">>, name |-> "options"],
        [tags |-> <<"handle_acquire">>, type |-> <<"zx_handle_t", "*">>, name |-> "out0"],
        [tags |-> <<"handle_acquire">>, type |-> <<"zx_handle_t", "*">>, name |-> "out1"] >>,
    attrs |-> <<[attr |-> "__NONNULL", args |-> <<2, 3>>], [attr |-> "__LEAF_FN", args |-> <<>>]>> ],
  [ line |-> 630, kind |-> "function", storage |-> "extern", body |-> FALSE,
    ret |-> <<"zx_status_t">>, name |-> <<"_", "zx_", "eventpair_create">>,
    voidList |-> FALSE,
    params |-> <<
        [tags |-> <<>>, type |-> <<"uint32_t">>, name |-> "options"],
        [tags |-> <<"handle_acquire">>, type |-> <<"zx_handle_t", "*">>, name |-> "out0"],
        [tags |-> <<"handle_acquire">>, type |-> <<"zx_handle_t", "*">>, name |-> "out1"] >>,
    attrs |-> <<[attr |-> "__LEAF_FN", args |-> <<>>]>> ]
  >>

\* definitions.h lines 625-633: zx_eventpair_create, each followed by its _zx_ variant.
Decls_eventpair ==
  <<
  [ line |-> 625, kind |-> "function", storage |-> "extern", body |-> FALSE,
    ret |-> <<"zx_status_t">>, name |-> <<"zx_", "eventpair_create">>,
    voidList |-> FALSE,
    params |-> <<
        [tags |-> <<>>, type |-> <<"uint32_t">>, name |-> "options"],
        [tags |-> <<"handle_acquire">>, type |-> <<"zx_handle_t", "*">>, name |-> "out0"],
        [tags |-> <<"handle_acquire">>, type |-> <<"zx_handle_t", "*">>, name |-> "out1"] >>,
    attrs |-> <<[attr |-> "__NONNULL", args |-> <<2, 3>>], [attr |-> "__LEAF_FN", args |-> <<>>]>> ],
  [ line |-> 630, kind |-> "function", storage |-> "extern", body |-> FALSE,
    ret |-> <<"zx_status_t">>, name |-> <<"_", "zx_", "eventpair_create">>,
    voidList |-> FALSE,
    params |-> <<
        [tags |-> <<>>, type |-> <<"uint32_t">>, name |-> "options"],
        [tags |-> <<"handle_acquire">>, type |-> <<"zx_handle_t", "*">>, name |-> "out0"],
        [tags |-> <<"handle_acquire">>, type |-> <<"zx_handle_t", "*">>, name |-> "out1"] >>,
    attrs |-> <<[attr |-> "__NONNULL", args |-> <<2, 3>>], [attr |-> "__LEAF_FN", args |-> <<>>]>> ]
  >>

\* definitions.h lines 635-721: zx_futex_wait .. zx_futex_requeue_deprecated, each followed by its _zx_ variant.
Decls_futex ==
  <<
  [ line |-> 635, kind |-> "function", storage |-> "extern", body |-> FALSE,
    ret |-> <<"zx_status_t">>, name |-> <<"zx_", "futex_wait">>,
    voidList |-> FALSE,
    params |-> <<
        [tags |-> <<>>, type |-> <<"const", "zx_futex_t", "*">>, name |-> "value_ptr"],
        [tags |-> <<>>, type |-> <<"zx_futex_t">>, name |-> "current_value"],
        [tags |-> <<"handle_use">>, type |-> <<"zx_handle_t">>, name |-> "new_futex_owner"],
        [tags |-> <<>>, type |-> <<"zx_time_t">>, name |-> "deadline"] >>,
    attrs |-> <<[attr |-> "__LEAF_FN", args |-> <<>>]>> ],
  [ line |-> 641, kind |-> "function", storage |-> "extern", body |-> FALSE,
    ret |-> <<"zx_status_t">>, name |-> <<"_", "zx_", "futex_wait">>,
    voidList |-> FALSE,
    params |-> <<
        [tags |-> <<>>, type |-> <<"const", "zx_futex_t", "*">>, name |-> "value_ptr"],
        [tags |-> <<>>, type |-> <<"zx_futex_t">>, name |-> "current_value"],
        [tags |-> <<"handle_use">>, type |-> <<"zx_handle_t">>, name |-> "new_futex_owner"],
        [tags |-> <<>>, type |-> <<"zx_time_t">>, name |-> "deadline"] >>,
    attrs |-> <<[attr |-> "__LEAF_FN", args |-> <<>>]>> ],
  [ line |-> 647, kind |-> "function", storage |-> "extern", body |-> FALSE,
    ret |-> <<"zx_status_t">>, name |-> <<"zx_", "futex_wake">>,
    voidList |-> FALSE,
    params |-> <<
        [tags |-> <<>>, type |-> <<"const", "zx_futex_t", "*">>, name |-> "value_ptr"],
        [tags |-> <<>>, type |-> <<"uint32_t">>, name |-> "count"] >>,
    attrs |-> <<[attr |-> "__LEAF_FN", args |-> <<>>]>> ],
  [ line |-> 651, kind |-> "function", storage |-> "extern", body |-> FALSE,
    ret |-> <<"zx_status_t">>, name |-> <<"_", "zx_", "futex_wake">>,
    voidList |-> FALSE,
    params |-> <<
        [tags |-> <<>>, type |-> <<"const", "zx_futex_t", "*">>, name |-> "value_ptr"],
        [tags |-> <<>>, type |-> <<"uint32_t">>, name |-> "count"] >>,
    attrs |-> <<[attr |-> "__LEAF_FN", args |-> <<>>]>> ],
  [ line |-> 655, kind |-> "function", storage |-> "extern", body |-> FALSE,
    ret |-> <<"zx_status_t">>, name |-> <<"zx_", "futex_requeue">>,
    voidList |-> FALSE,
    params |-> <<
        [tags |-> <<>>, type |-> <<"const", "zx_futex_t", "*">>, name |-> "wake_ptr"],
        [tags |-> <<>>, type |-> <<"uint32_t">>, name |-> "wake_count"],
        [tags |-> <<>>, type |-> <<"zx_futex_t">>, name |-> "current_value"],
        [tags |-> <<>>, type |-> <<"const", "zx_futex_t", "*">>, name |-> "requeue_ptr"],
        [tags |-> <<>>, type |-> <<"uint32_t">>, name |-> "requeue_count"],
        [tags |-> <<"handle_use">>, type |-> <<"zx_handle_t">>, name |-> "new_requeue_owner"] >>,
    attrs |-> <<[attr |-> "__LEAF_FN", args |-> <<>>]>> ],
  [ line |-> 663, kind |-> "function", storage |-> "extern", body |-> FALSE,
    ret |-> <<"zx_status_t">>, name |-> <<"_", "zx_", "futex_requeue">>,
    voidList |-> FALSE,
    params |-> <<
        [tags |-> <<>>, type |-> <<"const", "zx_futex_t", "*">>, name |-> "wake_ptr"],
        [tags |-> <<>>, type |-> <<"uint32_t">>, name |-> "wake_count"],
        [tags |-> <<>>, type |-> <<"zx_futex_t">>, name |-> "current_value"],
        [tags |-> <<>>, type |-> <<"const", "zx_futex_t", "*">>, name |-> "requeue_ptr"],
        [tags |-> <<>>, type |-> <<"uint32_t">>, name |-> "requeue_count"],
        [tags |-> <<"handle_use">>, type |-> <<"zx_handle_t">>, name |-> "new_requeue_owner"] >>,
    attrs |-> <<[attr |-> "__LEAF_FN", args |-> <<>>]>> ],
  [ line |-> 671, kind |-> "function", storage |-> "extern", body |-> FALSE,
    ret |-> <<"zx_status_t">>, name |-> <<"zx_", "futex_wake_single_owner">>,
    voidList |-> FALSE,
    params |-> <<
        [tags |-> <<>>, type |-> <<"const", "zx_futex_t", "*">>, name |-> "value_ptr"] >>,
    attrs |-> <<[attr |-> "__LEAF_FN", args |-> <<>>]>> ],
  [ line |-> 674, kind |-> "function", storage |-> "extern", body |-> FALSE,
    ret |-> <<"zx_status_t">>, name |-> <<"_", "zx_", "futex_wake_single_owner">>,
    voidList |-> FALSE,
    params |-> <<
        [tags |-> <<>>, type |-> <<"const", "zx_futex_t", "*">>, name |-> "value_ptr"] >>,
    attrs |-> <<[attr |-> "__LEAF_FN", args |-> <<>>]>> ],
  [ line |-> 677, kind |-> "function", storage |-> "extern", body |-> FALSE,
    ret |-> <<"zx_status_t">>, name |-> <<"zx_", "futex_requeue_single_owner">>,
    voidList |-> FALSE,
    params |-> <<
        [tags |-> <<>>, type |-> <<"const", "zx_futex_t", "*">>, name |-> "wake_ptr"],
        [tags |-> <<>>, type |-> <<"zx_futex_t">>, name |-> "current_value"],
        [tags |-> <<>>, type |-> <<"const", "zx_futex_t", "*">>, name |-> "requeue_ptr"],
        [tags |-> <<>>, type |-> <<"uint32_t">>, name |-> "requeue_count"],
        [tags |-> <<"handle_use">>, type |-> <<"zx_handle_t">>, name |-> "new_requeue_owner"] >>,
    attrs |-> <<[attr |-> "__LEAF_FN", args |-> <<>>]>> ],
  [ line |-> 684, kind |-> "function", storage |-> "extern", body |-> FALSE,
    ret |-> <<"zx_status_t">>, name |-> <<"_", "zx_", "futex_requeue_single_owner">>,
    voidList |-> FALSE,
    params |-> <<
        [tags |-> <<>>, type |-> <<"const", "zx_futex_t", "*">>, name |-> "wake_ptr"],
        [tags |-> <<>>, type |-> <<"zx_futex_t">>, name |-> "current_value"],
        [tags |-> <<>>, type |-> <<"const", "zx_futex_t", "*">>, name |-> "requeue_ptr"],
        [tags |-> <<>>, type |-> <<"uint32_t">>, name |-> "requeue_count"],
        [tags |-> <<"handle_use">>, type |-> <<"zx_handle_t">>, name |-> "new_requeue_owner"] >>,
    attrs |-> <<[attr |-> "__LEAF_FN", args |-> <<>>]>> ],
  [ line |-> 691, kind |-> "function", storage |-> "extern", body |-> FALSE,
    ret |-> <<"zx_status_t">>, name |-> <<"zx_", "futex_get_owner">>,
    voidList |-> FALSE,
    params |-> <<
        [tags |-> <<>>, type |-> <<"const", "zx_futex_t", "*">>, name |-> "value_ptr"],
        [tags |-> <<>>, type |-> <<"zx_koid_t", "*">>, name |-> "koid"] >>,
    attrs |-> <<[attr |-> "__LEAF_FN", args |-> <<>>]>> ],
  [ line |-> 695, kind |-> "function", storage |-> "extern", body |-> FALSE,
    ret |-> <<"zx_status_t">>, name |-> <<"_", "zx_", "futex_get_owner">>,
    voidList |-> FALSE,
    params |-> <<
        [tags |-> <<>>, type |-> <<"const", "zx_futex_t", "*">>, name |-> "value_ptr"],
        [tags |-> <<>>, type |-> <<"zx_koid_t", "*">>, name |-> "koid"] >>,
    attrs |-> <<[attr |-> "__LEAF_FN", args |-> <<>>]>> ],
  [ line |-> 699, kind |-> "function", storage |-> "extern", body |-> FALSE,
    ret |-> <<"zx_status_t">>, name |-> <<"zx_", "futex_wait_deprecated">>,
    voidList |-> FALSE,
    params |-> <<
        [tags |-> <<>>, type |-> <<"const", "zx_futex_t", "*">>, name |-> "value_ptr"],
        [tags |-> <<>>, type |-> <<"int32_t">>, name |-> "current_value"],
        [tags |-> <<>>, type |-> <<"zx_time_t">>, name |-> "deadline"] >>,
    attrs |-> <<[attr |-> "__LEAF_FN", args |-> <<>>]>> ],
  [ line |-> 704, kind |-> "function", storage |-> "extern", body |-> FALSE,
    ret |-> <<"zx_status_t">>, name |-> <<"_", "zx_", "futex_wait_deprecated">>,
    voidList |-> FALSE,
    params |-> <<
        [tags |-> <<>>, type |-> <<"const", "zx_futex_t", "*">>, name |-> "value_ptr"],
        [tags |-> <<>>, type |-> <<"int32_t">>, name |-> "current_value"],
        [tags |-> <<>>, type |-> <<"zx_time_t">>, name |-> "deadline"] >>,
    attrs |-> <<[attr |-> "__LEAF_FN", args |-> <<>>]>> ],
  [ line |-> 709, kind |-> "function", storage |-> "extern", body |-> FALSE,
    ret |-> <<"zx_status_t">>, name |-> <<"zx_", "futex_requeue_deprecated">>,
    voidList |-> FALSE,
    params |-> <<
        [tags |-> <<>>, type |-> <<"const", "zx_futex_t", "*">>, name |-> "wake_ptr"],
        [tags |-> <<>>, type |-> <<"uint32_t">>, name |-> "wake_count"],
        [tags |-> <<>>, type |-> <<"int32_t">>, name |-> "current_value"],
        [tags |-> <<>>, type |-> <<"const", "zx_futex_t", "*">>, name |-> "requeue_ptr"],
        [tags |-> <<>>, type |-> <<"uint32_t">>, name |-> "requeue_count"] >>,
    attrs |-> <<[attr |-> "__LEAF_FN", args |-> <<>>]>> ],
  [ line |-> 716, kind |-> "function", storage |-> "extern", body |-> FALSE,
    ret |-> <<"zx_status_t">>, name |-> <<"_", "zx_", "futex_requeue_deprecated">>,
    voidList |-> FALSE,
    params |-> <<
        [tags |-> <<>>, type |-> <<"const", "zx_futex_t", "*">>, name |-> "wake_ptr"],
        [tags |-> <<>>, type |-> <<"uint32_t">>, name |-> "wake_count"],
        [tags |-> <<>>, type |-> <<"int32_t">>, name |-> "current_value"],
        [tags |-> <<>>, type |-> <<"const", "zx_futex_t", "*">>, name |-> "requeue_ptr"],
        [tags |-> <<>>, type |-> <<"uint32_t">>, name |-> "requeue_count"] >>,
    attrs |-> <<[attr |-> "__LEAF_FN", args |-> <<>>]>> ]
  >>

\* definitions.h lines 723-757: zx_port_create .. zx_port_cancel, each followed by its _zx_ variant.
Decls_port ==
  <<
  [ line |-> 723, kind |-> "function", storage |-> "extern", body |-> FALSE,
    ret |-> <<"zx_status_t">>, name |-> <<"zx_", "port_create">>,
    voidList |-> FALSE,
    params |-> <<
        [tags |-> <<>>, type |-> <<"uint32_t">>, name |-> "options"],
        [tags |-> <<"handle_acquire">>, type |-> <<"zx_handle_t", "*">>, name |-> "out"] >>,
    attrs |-> <<[attr |-> "__NONNULL", args |-> <<2>>], [attr |-> "__LEAF_FN", args |-> <<>>]>> ],
  [ line |-> 727, kind |-> "function", storage |-> "extern", body |-> FALSE,
    ret |-> <<"zx_status_t">>, name |-> <<"_", "zx_", "port_create">>,
    voidList |-> FALSE,
    params |-> <<
        [tags |-> <<>>, type |-> <<"uint32_t">>, name |-> "options"],
        [tags |-> <<"handle_acquire">>, type |-> <<"zx_handle_t", "*">>, name |-> "out"] >>,
    attrs |-> <<[attr |-> "__NONNULL", args |-> <<2>>], [attr |-> "__LEAF_FN", args |-> <<>>]>> ],
  [ line |-> 731, kind |-> "function", storage |-> "extern", body |-> FALSE,
    ret |-> <<"zx_status_t">>, name |-> <<"zx_", "port_queue">>,
    voidList |-> FALSE,
    params |-> <<
        [tags |-> <<"handle_use">>, type |-> <<"zx_handle_t">>, name |-> "handle"],
        [tags |-> <<>>, type |-> <<"const", "zx_port_packet_t", "*">>, name |-> "packet"] >>,
    attrs |-> <<[attr |-> "__LEAF_FN", args |-> <<>>]>> ],
  [ line |-> 735, kind |-> "function", storage |-> "extern", body |-> FALSE,
    ret |-> <<"zx_status_t">>, name |-> <<"_", "zx_", "port_queue">>,
    voidList |-> FALSE,
    params |-> <<
        [tags |-> <<"handle_use">>, type |-> <<"zx_handle_t">>, name |-> "handle"],
        [tags |-> <<>>, type |-> <<"const", "zx_port_packet_t", "*">>, name |-> "packet"] >>,
    attrs |-> <<[attr |-> "__LEAF_FN", args |-> <<>>]>> ],
  [ line |-> 739, kind |-> "function", storage |-> "extern", body |-> FALSE,
    ret |-> <<"zx_status_t">>, name |-> <<"zx_", "port_wait">>,
    voidList |-> FALSE,
    params |-> <<
        [tags |-> <<"handle_use">>, type |-> <<"zx_handle_t">>, name |-> "handle"],
        [tags |-> <<>>, type |-> <<"zx_time_t">>, name |-> "deadline"],
        [tags |-> <<>>, type |-> <<"zx_port_packet_t", "*">>, name |-> "packet"] >>,
    attrs |-> <<[attr |-> "__LEAF_FN", args |-> <<>>]>> ],
  [ line |-> 744, kind |-> "function", storage |-> "extern", body |-> FALSE,
    ret |-> <<"zx_status_t">>, name |-> <<"_", "zx_", "port_wait">>,
    voidList |-> FALSE,
    params |-> <<
        [tags |-> <<"handle_use">>, type |-> <<"zx_handle_t">>, name |-> "handle"],
        [tags |-> <<>>, type |-> <<"zx_time_t">>, name |-> "deadline"],
        [tags |-> <<>>, type |-> <<"zx_port_packet_t", "*">>, name |-> "packet"] >>,
    attrs |-> <<[attr |-> "__LEAF_FN", args |-> <<>>]>> ],
  [ line |-> 749, kind |-> "function", storage |-> "extern", body |-> FALSE,
    ret |-> <<"zx_status_t">>, name |-> <<"zx_", "port_cancel">>,
    voidList |-> FALSE,
    params |-> <<
        [tags |-> <<"handle_use">>, type |-> <<"zx_handle_t">>, name |-> "handle"],
        [tags |-> <<"handle_use">>, type |-> <<"zx_handle_t">>, name |-> "source"],
        [tags |-> <<>>, type |-> <<"uint64_t">>, name |-> "key"] >>,
    attrs |-> <<[attr |-> "__LEAF_FN", args |-> <<>>]>> ],
  [ line |-> 754, kind |-> "function", storage |-> "extern", body |-> FALSE,
    ret |-> <<"zx_status_t">>, name |-> <<"_", "zx_", "port_cancel">>,
    voidList |-> FALSE,
    params |-> <<
        [tags |-> <<"handle_use">>, type |-> <<"zx_handle_t">>, name |-> "handle"],
        [tags |-> <<"handle_use">>, type |-> <<"zx_handle_t">>, name |-> "source"],
        [tags |-> <<>>, type |-> <<"uint64_t">>, name |-> "key"] >>,
    attrs |-> <<[attr |-> "__LEAF_FN", args |-> <<>>]>> ]
  >>

\* definitions.h lines 759-783: zx_timer_create .. zx_timer_cancel, each followed by its _zx_ variant.
Decls_timer ==
  <<
  [ line |-> 759, kind |-> "function", storage |-> "extern", body |-> FALSE,
    ret |-> <<"zx_status_t">>, name |-> <<"zx_", "timer_create">>,
    voidList |-> FALSE,
    params |-> <<
        [tags |-> <<>>, type |-> <<"uint32_t">>, name |-> "options"],
        [tags |-> <<>>, type |-> <<"zx_clock_t">>, name |-> "clock_id"],
        [tags |-> <<"handle_acquire">>, type |-> <<"zx_handle_t", "*">>, name |-> "out"] >>,
    attrs |-> <<[attr |-> "__NONNULL", args |-> <<3>>], [attr |-> "__LEAF_FN", args |-> <<>>]>> ],
  [ line |-> 764, kind |-> "function", storage |-> "extern", body |-> FALSE,
    ret |-> <<"zx_status_t">>, name |-> <<"_", "zx_", "timer_create">>,
    voidList |-> FALSE,
    params |-> <<
        [tags |-> <<>>, type |-> <<"uint32_t">>, name |-> "options"],
        [tags |-> <<>>, type |-> <<"zx_clock_t">>, name |-> "clock_id"],
        [tags |-> <<"handle_acquire">>, type |-> <<"zx_handle_t", "*">>, name |-> "out"] >>,
    attrs |-> <<[attr |-> "__NONNULL", args |-> <<3>>], [attr |-> "__LEAF_FN", args |-> <<>>]>> ],
  [ line |-> 769, kind |-> "function", storage |-> "extern", body |-> FALSE,
    ret |-> <<"zx_status_t">>, name |-> <<"zx_", "timer_set">>,
    voidList |-> FALSE,
    params |-> <<
        [tags |-> <<"handle_use">>, type |-> <<"zx_handle_t">>, name |-> "handle"],
        [tags |-> <<>>, type |-> <<"zx_time_t">>, name |-> "deadline"],
        [tags |-> <<>>, type |-> <<"zx_duration_t">>, name |-> "slack"] >>,
    attrs |-> <<[attr |-> "__LEAF_FN", args |-> <<>>]>> ],
  [ line |-> 774, kind |-> "function", storage |-> "extern", body |-> FALSE,
    ret |-> <<"zx_status_t">>, name |-> <<"_", "zx_", "timer_set">>,
    voidList |-> FALSE,
    params |-> <<
        [tags |-> <<"handle_use">>, type |-> <<"zx_handle_t">>, name |-> "handle"],
        [tags |-> <<>>, type |-> <<"zx_time_t">>, name |-> "deadline"],
        [tags |-> <<>>, type |-> <<"zx_duration_t">>, name |-> "slack"] >>,
    attrs |-> <<[attr |-> "__LEAF_FN", args |-> <<>>]>> ],
  [ line |-> 779, kind |-> "function", storage |-> "extern", body |-> FALSE,
    ret |-> <<"zx_status_t">>, name |-> <<"zx_", "timer_cancel">>,
    voidList |-> FALSE,
    params |-> <<
        [tags |-> <<"handle_use">>, type |-> <<"zx_handle_t">>, name |-> "handle"] >>,
    attrs |-> <<[attr |-> "__LEAF_FN", args |-> <<>>]>> ],
  [ line |-> 782, kind |-> "function", storage |-> "extern", body |-> FALSE,
    ret |-> <<"zx_status_t">>, name |-> <<"_", "zx_", "timer_cancel">>,
    voidList |-> FALSE,
    params |-> <<
        [tags |-> <<"handle_use">>, type |-> <<"zx_handle_t">>, name |-> "handle"] >>,
    attrs |-> <<[attr |-> "__LEAF_FN", args |-> <<>>]>> ]
  >>

\* definitions.h lines 785-881: zx_vmo_create .. zx_vmo_replace_as_executable, each followed by its _zx_ variant.
Decls_vmo ==
  <<
  [ line |-> 785, kind |-> "function", storage |-> "extern", body |-> FALSE,
    ret |-> <<"zx_status_t">>, name |-> <<"zx_", "vmo_create">>,
    voidList |-> FALSE,
    params |-> <<
        [tags |-> <<>>, type |-> <<"uint64_t">>, name |-> "size"],
        [tags |-> <<>>, type |-> <<"uint32_t">>, name |-> "options"],
        [tags |-> <<"handle_acquire">>, type |-> <<"zx_handle_t", "*">>, name |-> "out"] >>,
    attrs |-> <<[attr |-> "__NONNULL", args |-> <<3>>], [attr |-> "__LEAF_FN", args |-> <<>>]>> ],
  [ line |-> 790, kind |-> "function", storage |-> "extern", body |-> FALSE,
    ret |-> <<"zx_status_t">>, name |-> <<"_", "zx_", "vmo_create">>,
    voidList |-> FALSE,
    params |-> <<
        [tags |-> <<>>, type |-> <<"uint64_t">>, name |-> "size"],
        [tags |-> <<>>, type |-> <<"uint32_t">>, name |-> "options"],
        [tags |-> <<"handle_acquire">>, type |-> <<"zx_handle_t", "*">>, name |-> "out"] >>,
    attrs |-> <<[attr |-> "__NONNULL", args |-> <<3>>], [attr |-> "__LEAF_FN", args |-> <<>>]>> ],
  [ line |-> 795, kind |-> "function", storage |-> "extern", body |-> FALSE,
    ret |-> <<"zx_status_t">>, name |-> <<"zx_", "vmo_read">>,
    voidList |-> FALSE,
    params |-> <<
        [tags |-> <<"handle_use">>, type |-> <<"zx_handle_t">>, name |-> "handle"],
        [tags |-> <<>>, type |-> <<"void", "*">>, name |-> "buffer"],
        [tags |-> <<>>, type |-> <<"uint64_t">>, name |-> "offset"],
        [tags |-> <<>>, type |-> <<"size_t">>, name |-> "buffer_size"] >>,
    attrs |-> <<[attr |-> "__LEAF_FN", args |-> <<>>]>> ],
  [ line |-> 801, kind |-> "function", storage |-> "extern", body |-> FALSE,
    ret |-> <<"zx_status_t">>, name |-> <<"_", "zx_", "vmo_read">>,
    voidList |-> FALSE,
    params |-> <<
        [tags |-> <<"handle_use">>, type |-> <<"zx_handle_t">>, name |-> "handle"],
        [tags |-> <<>>, type |-> <<"void", "*">>, name |-> "buffer"],
        [tags |-> <<>>, type |-> <<"uint64_t">>, name |-> "offset"],
        [tags |-> <<>>, type |-> <<"size_t">>, name |-> "buffer_size"] >>,
    attrs |-> <<[attr |-> "__LEAF_FN", args |-> <<>>]>> ],
  [ line |-> 807, kind |-> "function", storage |-> "extern", body |-> FALSE,
    ret |-> <<"zx_status_t">>, name |-> <<"zx_", "vmo_write">>,
    voidList |-> FALSE,
    params |-> <<
        [tags |-> <<"handle_use">>, type |-> <<"zx_handle_t">>, name |-> "handle"],
        [tags |-> <<>>, type |-> <<"const", "void", "*">>, name |-> "buffer"],
        [tags |-> <<>>, type |-> <<"uint64_t">>, name |-> "offset"],
        [tags |-> <<>>, type |-> <<"size_t">>, name |-> "buffer_size"] >>,
    attrs |-> <<[attr |-> "__LEAF_FN", args |-> <<>>]>> ],
  [ line |-> 813, kind |-> "function", storage |-> "extern", body |-> FALSE,
    ret |-> <<"zx_status_t">>, name |-> <<"_", "zx_", "vmo_write">>,
    voidList |-> FALSE,
    params |-> <<
        [tags |-> <<"handle_use">>, type |-> <<"zx_handle_t">>, name |-> "handle"],
        [tags |-> <<>>, type |-> <<"const", "void", "*">>, name |-> "buffer"],
        [tags |-> <<>>, type |-> <<"uint64_t">>, name |-> "offset"],
        [tags |-> <<>>, type |-> <<"size_t">>, name |-> "buffer_size"] >>,
    attrs |-> <<[attr |-> "__LEAF_FN", args |-> <<>>]>> ],
  [ line |-> 819, kind |-> "function", storage |-> "extern", body |-> FALSE,
    ret |-> <<"zx_status_t">>, name |-> <<"zx_", "vmo_get_size">>,
    voidList |-> FALSE,
    params |-> <<
        [tags |-> <<"handle_use">>, type |-> <<"zx_handle_t">>, name |-> "handle"],
        [tags |-> <<>>, type |-> <<"uint64_t", "*">>, name |-> "size"] >>,
    attrs |-> <<[attr |-> "__NONNULL", args |-> <<2>>], [attr |-> "__LEAF_FN", args |-> <<>>]>> ],
  [ line |-> 823, kind |-> "function", storage |-> "extern", body |-> FALSE,
    ret |-> <<"zx_status_t">>, name |-> <<"_", "zx_", "vmo_get_size">>,
    voidList |-> FALSE,
    params |-> <<
        [tags |-> <<"handle_use">>, type |-> <<"zx_handle_t">>, name |-> "handle"],
        [tags |-> <<>>, type |-> <<"uint64_t", "*">>, name |-> "size"] >>,
    attrs |-> <<[attr |-> "__NONNULL", args |-> <<2>>], [attr |-> "__LEAF_FN", args |-> <<>>]>> ],
  [ line |-> 827, kind |-> "function", storage |-> "extern", body |-> FALSE,
    ret |-> <<"zx_status_t">>, name |-> <<"zx_", "vmo_set_size">>,
    voidList |-> FALSE,
    params |-> <<
        [tags |-> <<"handle_use">>, type |-> <<"zx_handle_t">>, name |-> "handle"],
        [tags |-> <<>>, type |-> <<"uint64_t">>, name |-> "size"] >>,
    attrs |-> <<[attr |-> "__LEAF_FN", args |-> <<>>]>> ],
  [ line |-> 831, kind |-> "function", storage |-> "extern", body |-> FALSE,
    ret |-> <<"zx_status_t">>, name |-> <<"_", "zx_", "vmo_set_size">>,
    voidList |-> FALSE,
    params |-> <<
        [tags |-> <<"handle_use">>, type |-> <<"zx_handle_t">>, name |-> "handle"],
        [tags |-> <<>>, type |-> <<"uint64_t">>, name |-> "size"] >>,
    attrs |-> <<[attr |-> "__LEAF_FN", args |-> <<>>]>> ],
  [ line |-> 835, kind |-> "function", storage |-> "extern", body |-> FALSE,
    ret |-> <<"zx_status_t">>, name |-> <<"zx_", "vmo_op_range">>,
    voidList |-> FALSE,
    params |-> <<
        [tags |-> <<"handle_use">>, type |-> <<"zx_handle_t">>, name |-> "handle"],
        [tags |-> <<>>, type |-> <<"uint32_t">>, name |-> "op"],
        [tags |-> <<>>, type |-> <<"uint64_t">>, name |-> "offset"],
        [tags |-> <<>>, type |-> <<"uint64_t">>, name |-> "size"],
        [tags |-> <<>>, type |-> <<"void", "*">>, name |-> "buffer"],
        [tags |-> <<>>, type |-> <<"size_t">>, name |-> "buffer_size"] >>,
    attrs |-> <<[attr |-> "__LEAF_FN", args |-> <<>>]>> ],
  [ line |-> 843, kind |-> "function", storage |-> "extern", body |-> FALSE,
    ret |-> <<"zx_status_t">>, name |-> <<"_", "zx_", "vmo_op_range">>,
    voidList |-> FALSE,
    params |-> <<
        [tags |-> <<"handle_use">>, type |-> <<"zx_handle_t">>, name |-> "handle"],
        [tags |-> <<>>, type |-> <<"uint32_t">>, name |-> "op"],
        [tags |-> <<>>, type |-> <<"uint64_t">>, name |-> "offset"],
        [tags |-> <<>>, type |-> <<"uint64_t">>, name |-> "size"],
        [tags |-> <<>>, type |-> <<"void", "*">>, name |-> "buffer"],
        [tags |-> <<>>, type |-> <<"size_t">>, name |-> "buffer_size"] >>,
    attrs |-> <<[attr |-> "__LEAF_FN", args |-> <<>>]>> ],
  [ line |-> 851, kind |-> "function", storage |-> "extern", body |-> FALSE,
    ret |-> <<"zx_status_t">>, name |-> <<"zx_", "vmo_clone">>,
    voidList |-> FALSE,
    params |-> <<
        [tags |-> <<"handle_use">>, type |-> <<"zx_handle_t">>, name |-> "handle"],
        [tags |-> <<>>, type |-> <<"uint32_t">>, name |-> "options"],
        [tags |-> <<>>, type |-> <<"uint64_t">>, name |-> "offset"],
        [tags |-> <<>>, type |-> <<"uint64_t">>, name |-> "size"],
        [tags |-> <<"handle_acquire">>, type |-> <<"zx_handle_t", "*">>, name |-> "out"] >>,
    attrs |-> <<[attr |-> "__NONNULL", args |-> <<5>>], [attr |-> "__LEAF_FN", args |-> <<>>]>> ],
  [ line |-> 858, kind |-> "function", storage |-> "extern", body |-> FALSE,
    ret |-> <<"zx_status_t">>, name |-> <<"_", "zx_", "vmo_clone">>,
    voidList |-> FALSE,
    params |-> <<
        [tags |-> <<"handle_use">>, type |-> <<"zx_handle_t">>, name |-> "handle"],
        [tags |-> <<>>, type |-> <<"uint32_t">>, name |-> "options"],
        [tags |-> <<>>, type |-> <<"uint64_t">>, name |-> "offset"],
        [tags |-> <<>>, type |-> <<"uint64_t">>, name |-> "size"],
        [tags |-> <<"handle_acquire">>, type |-> <<"zx_handle_t", "*">>, name |-> "out"] >>,
    attrs |-> <<[attr |-> "__NONNULL", args |-> <<5>>], [attr |-> "__LEAF_FN", args |-> <<>>]>> ],
  [ line |-> 865, kind |-> "function", storage |-> "extern", body |-> FALSE,
    ret |-> <<"zx_status_t">>, name |-> <<"zx_", "vmo_set_cache_policy">>,
    voidList |-> FALSE,
    params |-> <<
        [tags |-> <<"handle_use">>, type |-> <<"zx_handle_t">>, name |-> "handle"],
        [tags |-> <<>>, type |-> <<"uint32_t">>, name |-> "cache_policy"] >>,
    attrs |-> <<[attr |-> "__LEAF_FN", args |-> <<>>]>> ],
  [ line |-> 869, kind |-> "function", storage |-> "extern", body |-> FALSE,
    ret |-> <<"zx_status_t">>, name |-> <<"_", "zx_", "vmo_set_cache_policy">>,
    voidList |-> FALSE,
    params |-> <<
        [tags |-> <<"handle_use">>, type |-> <<"zx_handle_t">>, name |-> "handle"],
        [tags |-> <<>>, type |-> <<"uint32_t">>, name |-> "cache_policy"] >>,
    attrs |-> <<[attr |-> "__LEAF_FN", args |-> <<>>]>> ],
  [ line |-> 873, kind |-> "function", storage |-> "extern", body |-> FALSE,
    ret |-> <<"zx_status_t">>, name |-> <<"zx_", "vmo_replace_as_executable">>,
    voidList |-> FALSE,
    params |-> <<
        [tags |-> <<"handle_release_always">>, type |-> <<"zx_handle_t">>, name |-> "handle"],
        [tags |-> <<"handle_use">>, type |-> <<"zx_handle_t">>, name |-> "vmex"],
        [tags |-> <<"handle_acquire">>, type |-> <<"zx_handle_t", "*">>, name |-> "out"] >>,
    attrs |-> <<[attr |-> "__NONNULL", args |-> <<3>>], [attr |-> "__LEAF_FN", args |-> <<>>]>> ],
  [ line |-> 878, kind |-> "function", storage |-> "extern", body |-> FALSE,
    ret |-> <<"zx_status_t">>, name |-> <<"_", "zx_", "vmo_replace_as_executable">>,
    voidList |-> FALSE,
    params |-> <<
        [tags |-> <<"handle_release_always">>, type |-> <<"zx_handle_t">>, name |-> "handle"],
        [tags |-> <<"handle_use">>, type |-> <<"zx_handle_t">>, name |-> "vmex"],
        [tags |-> <<"handle_acquire">>, type |-> <<"zx_handle_t", "*">>, name |-> "out"] >>,
    attrs |-> <<[attr |-> "__NONNULL", args |-> <<3>>], [attr |-> "__LEAF_FN", args |-> <<>>]>> ]
  >>

\* definitions.h lines 883-989: zx_vmar_allocate_old .. zx_vmar_protect, each followed by its _zx_ variant.
Decls_vmar ==
  <<
  [ line |-> 883, kind |-> "function", storage |-> "extern", body |-> FALSE,
    ret |-> <<"zx_status_t">>, name |-> <<"zx_", "vmar_allocate_old">>,
    voidList |-> FALSE,
    params |-> <<
        [tags |-> <<"handle_use">>, type |-> <<"zx_handle_t">>, name |-> "parent_vmar"],
        [tags |-> <<>>, type |-> <<"uint64_t">>, name |-> "offset"],
        [tags |-> <<>>, type |-> <<"uint64_t">>, name |-> "size"],
        [tags |-> <<>>, type |-> <<"uint32_t">>, name |-> "map_flags"],
        [tags |-> <<"handle_acquire">>, type |-> <<"zx_handle_t", "*">>, name |-> "child_vmar"],
        [tags |-> <<>>, type |-> <<"zx_vaddr_t", "*">>, name |-> "child_addr"] >>,
    attrs |-> <<[attr |-> "__NONNULL", args |-> <<5, 6>>], [attr |-> "__LEAF_FN", args |-> <<>>]>> ],
  [ line |-> 891, kind |-> "function", storage |-> "extern", body |-> FALSE,
    ret |-> <<"zx_status_t">>, name |-> <<"_", "zx_", "vmar_allocate_old">>,
    voidList |-> FALSE,
    params |-> <<
        [tags |-> <<"handle_use">>, type |-> <<"zx_handle_t">>, name |-> "parent_vmar"],
        [tags |-> <<>>, type |-> <<"uint64_t">>, name |-> "offset"],
        [tags |-> <<>>, type |-> <<"uint64_t">>, name |-> "size"],
        [tags |-> <<>>, type |-> <<"uint32_t">>, name |-> "map_flags"],
        [tags |-> <<"handle_acquire">>, type |-> <<"zx_handle_t", "*">>, name |-> "child_vmar"],
        [tags |-> <<>>, type |-> <<"zx_vaddr_t", "*">>, name |-> "child_addr"] >>,
    attrs |-> <<[attr |-> "__NONNULL", args |-> <<5, 6>>], [attr |-> "__LEAF_FN", args |-> <<>>]>> ],
  [ line |-> 899, kind |-> "function", storage |-> "extern", body |-> FALSE,
    ret |-> <<"zx_status_t">>, name |-> <<"zx_", "vmar_map_old">>,
    voidList |-> FALSE,
    params |-> <<
        [tags |-> <<"handle_use">>, type |-> <<"zx_handle_t">>, name |-> "handle"],
        [tags |-> <<>>, type |-> <<"uint64_t">>, name |-> "vmar_offset"],
        [tags |-> <<"handle_use">>, type |-> <<"zx_handle_t">>, name |-> "vmo"],
        [tags |-> <<>>, type |-> <<"uint64_t">>, name |-> "vmo_offset"],
        [tags |-> <<>>, type |-> <<"uint64_t">>, name |-> "len"],
        [tags |-> <<>>, type |-> <<"uint32_t">>, name |-> "map_flags"],
        [tags |-> <<>>, type |-> <<"zx_vaddr_t", "*">>, name |-> "mapped_addr"] >>,
    attrs |-> <<[attr |-> "__NONNULL", args |-> <<7>>], [attr |-> "__LEAF_FN", args |-> <<>>]>> ],
  [ line |-> 908, kind |-> "function", storage |-> "extern", body |-> FALSE,
    ret |-> <<"zx_status_t">>, name |-> <<"_", "zx_", "vmar_map_old">>,
    voidList |-> FALSE,
    params |-> <<
        [tags |-> <<"handle_use">>, type |-> <<"zx_handle_t">>, name |-> "handle"],
        [tags |-> <<>>, type |-> <<"uint64_t">>, name |-> "vmar_offset"],
        [tags |-> <<"handle_use">>, type |-> <<"zx_handle_t">>, name |-> "vmo"],
        [tags |-> <<>>, type |-> <<"uint64_t">>, name |-> "vmo_offset"],
        [tags |-> <<>>, type |-> <<"uint64_t">>, name |-> "len"],
        [tags |-> <<>>, type |-> <<"uint32_t">>, name |-> "map_flags"],
        [tags |-> <<>>, type |-> <<"zx_vaddr_t", "*">>, name |-> "mapped_addr"] >>,
    attrs |-> <<[attr |-> "__NONNULL", args |-> <<7>>], [attr |-> "__LEAF_FN", args |-> <<>>]>> ],
  [ line |-> 917, kind |-> "function", storage |-> "extern", body |-> FALSE,
    ret |-> <<"zx_status_t">>, name |-> <<"zx_", "vmar_protect_old">>,
    voidList |-> FALSE,
    params |-> <<
        [tags |-> <<"handle_use">>, type |-> <<"zx_handle_t">>, name |-> "handle"],
        [tags |-> <<>>, type |-> <<"zx_vaddr_t">>, name |-> "addr"],
        [tags |-> <<>>, type |-> <<"uint64_t">>, name |-> "len"],
        [tags |-> <<>>, type |-> <<"uint32_t">>, name |-> "prot_flags"] >>,
    attrs |-> <<[attr |-> "__LEAF_FN", args |-> <<>>]>> ],
  [ line |-> 923, kind |-> "function", storage |-> "extern", body |-> FALSE,
    ret |-> <<"zx_status_t">>, name |-> <<"_", "zx_", "vmar_protect_old">>,
    voidList |-> FALSE,
    params |-> <<
        [tags |-> <<"handle_use">>, type |-> <<"zx_handle_t">>, name |-> "handle"],
        [tags |-> <<>>, type |-> <<"zx_vaddr_t">>, name |-> "addr"],
        [tags |-> <<>>, type |-> <<"uint64_t">>, name |-> "len"],
        [tags |-> <<>>, type |-> <<"uint32_t">>, name |-> "prot_flags"] >>,
    attrs |-> <<[attr |-> "__LEAF_FN", args |-> <<>>]>> ],
  [ line |-> 929, kind |-> "function", storage |-> "extern", body |-> FALSE,
    ret |-> <<"zx_status_t">>, name |-> <<"zx_", "vmar_allocate">>,
    voidList |-> FALSE,
    params |-> <<
        [tags |-> <<"handle_use">>, type |-> <<"zx_handle_t">>, name |-> "parent_vmar"],
        [tags |-> <<>>, type |-> <<"zx_vm_option_t">>, name |-> "options"],
        [tags |-> <<>>, type |-> <<"uint64_t">>, name |-> "offset"],
        [tags |-> <<>>, type |-> <<"uint64_t">>, name |-> "size"],
        [tags |-> <<"handle_acquire">>, type |-> <<"zx_handle_t", "*">>, name |-> "child_vmar"],
        [tags |-> <<>>, type |-> <<"zx_vaddr_t", "*">>, name |-> "child_addr"] >>,
    attrs |-> <<[attr |-> "__NONNULL", args |-> <<5, 6>>], [attr |-> "__LEAF_FN", args |-> <<>>]>> ],
  [ line |-> 937, kind |-> "function", storage |-> "extern", body |-> FALSE,
    ret |-> <<"zx_status_t">>, name |-> <<"_", "zx_", "vmar_allocate">>,
    voidList |-> FALSE,
    params |-> <<
        [tags |-> <<"handle_use">>, type |-> <<"zx_handle_t">>, name |-> "parent_vmar"],
        [tags |-> <<>>, type |-> <<"zx_vm_option_t">>, name |-> "options"],
        [tags |-> <<>>, type |-> <<"uint64_t">>, name |-> "offset"],
        [tags |-> <<>>, type |-> <<"uint64_t">>, name |-> "size"],
        [tags |-> <<"handle_acquire">>, type |-> <<"zx_handle_t", "*">>, name |-> "child_vmar"],
        [tags |-> <<>>, type |-> <<"zx_vaddr_t", "*">>, name |-> "child_addr"] >>,
    attrs |-> <<[attr |-> "__NONNULL", args |-> <<5, 6>>], [attr |-> "__LEAF_FN", args |-> <<>>]>> ],
  [ line |-> 945, kind |-> "function", storage |-> "extern", body |-> FALSE,
    ret |-> <<"zx_status_t">>, name |-> <<"zx_", "vmar_destroy">>,
    voidList |-> FALSE,
    params |-> <<
        [tags |-> <<"handle_use">>, type |-> <<"zx_handle_t">>, name |-> "handle"] >>,
    attrs |-> <<[attr |-> "__LEAF_FN", args |-> <<>>]>> ],
  [ line |-> 948, kind |-> "function", storage |-> "extern", body |-> FALSE,
    ret |-> <<"zx_status_t">>, name |-> <<"_", "zx_", "vmar_destroy">>,
    voidList |-> FALSE,
    params |-> <<
        [tags |-> <<"handle_use">>, type |-> <<"zx_handle_t">>, name |-> "handle"] >>,
    attrs |-> <<[attr |-> "__LEAF_FN", args |-> <<>>]>> ],
  [ line |-> 951, kind |-> "function", storage |-> "extern", body |-> FALSE,
    ret |-> <<"zx_status_t">>, name |-> <<"zx_", "vmar_map">>,
    voidList |-> FALSE,
    params |-> <<
        [tags |-> <<"handle_use">>, type |-> <<"zx_handle_t">>, name |-> "handle"],
        [tags |-> <<>>, type |-> <<"zx_vm_option_t">>, name |-> "options"],
        [tags |-> <<>>, type |-> <<"uint64_t">>, name |-> "vmar_offset"],
        [tags |-> <<"handle_use">>, type |-> <<"zx_handle_t">>, name |-> "vmo"],
        [tags |-> <<>>, type |-> <<"uint64_t">>, name |-> "vmo_offset"],
        [tags |-> <<>>, type |-> <<"uint64_t">>, name |-> "len"],
        [tags |-> <<>>, type |-> <<"zx_vaddr_t", "*">>, name |-> "mapped_addr"] >>,
    attrs |-> <<[attr |-> "__NONNULL", args |-> <<7>>], [attr |-> "__LEAF_FN", args |-> <<>>]>> ],
  [ line |-> 960, kind |-> "function", storage |-> "extern", body |-> FALSE,
    ret |-> <<"zx_status_t">>, name |-> <<"_", "zx_", "vmar_map">>,
    voidList |-> FALSE,
    params |-> <<
        [tags |-> <<"handle_use">>, type |-> <<"zx_handle_t">>, name |-> "handle"],
        [tags |-> <<>>, type |-> <<"zx_vm_option_t">>, name |-> "options"],
        [tags |-> <<>>, type |-> <<"uint64_t">>, name |-> "vmar_offset"],
        [tags |-> <<"handle_use">>, type |-> <<"zx_handle_t">>, name |-> "vmo"],
        [tags |-> <<>>, type |-> <<"uint64_t">>, name |-> "vmo_offset"],
        [tags |-> <<>>, type |-> <<"uint64_t">>, name |-> "len"],
        [tags |-> <<>>, type |-> <<"zx_vaddr_t", "*">>, name |-> "mapped_addr"] >>,
    attrs |-> <<[attr |-> "__NONNULL", args |-> <<7>>], [attr |-> "__LEAF_FN", args |-> <<>>]>> ],
  [ line |-> 969, kind |-> "function", storage |-> "extern", body |-> FALSE,
    ret |-> <<"zx_status_t">>, name |-> <<"zx_", "vmar_unmap">>,
    voidList |-> FALSE,
    params |-> <<
        [tags |-> <<"handle_use">>, type |-> <<"zx_handle_t">>, name |-> "handle"],
        [tags |-> <<>>, type |-> <<"zx_vaddr_t">>, name |-> "addr"],
        [tags |-> <<>>, type |-> <<"uint64_t">>, name |-> "len"] >>,
    attrs |-> <<[attr |-> "__LEAF_FN", args |-> <<>>]>> ],
  [ line |-> 974, kind |-> "function", storage |-> "extern", body |-> FALSE,
    ret |-> <<"zx_status_t">>, name |-> <<"_", "zx_", "vmar_unmap">>,
    voidList |-> FALSE,
    params |-> <<
        [tags |-> <<"handle_use">>, type |-> <<"zx_handle_t">>, name |-> "handle"],
        [tags |-> <<>>, type |-> <<"zx_vaddr_t">>, name |-> "addr"],
        [tags |-> <<>>, type |-> <<"uint64_t">>, name |-> "len"] >>,
    attrs |-> <<[attr |-> "__LEAF_FN", args |-> <<>>]>> ],
  [ line |-> 979, kind |-> "function", storage |-> "extern", body |-> FALSE,
    ret |-> <<"zx_status_t">>, name |-> <<"zx_", "vmar_protect">>,
    voidList |-> FALSE,
    params |-> <<
        [tags |-> <<"handle_use">>, type |-> <<"zx_handle_t">>, name |-> "handle"],
        [tags |-> <<>>, type |-> <<"zx_vm_option_t">>, name |-> "options"],
        [tags |-> <<>>, type |-> <<"zx_vaddr_t">>, name |-> "addr"],
        [tags |-> <<>>, type |-> <<"uint64_t">>, name |-> "len"] >>,
    attrs |-> <<[attr |-> "__LEAF_FN", args |-> <<>>]>> ],
  [ line |-> 985, kind |-> "function", storage |-> "extern", body |-> FALSE,
    ret |-> <<"zx_status_t">>, name |-> <<"_", "zx_", "vmar_protect">>,
    voidList |-> FALSE,
    params |-> <<
        [tags |-> <<"handle_use">>, type |-> <<"zx_handle_t">>, name |-> "handle"],
        [tags |-> <<>>, type |-> <<"zx_vm_option_t">>, name |-> "options"],
        [tags |-> <<>>, type |-> <<"zx_vaddr_t">>, name |-> "addr"],
        [tags |-> <<>>, type |-> <<"uint64_t">>, name |-> "len"] >>,
    attrs |-> <<[attr |-> "__LEAF_FN", args |-> <<>>]>> ]
  >>

\* Decls_cprng as a slip of the generator would leave it: zx_cprng_add_entropy returns void without being __NO_RETURN.
Decls_cprng_AddEntropyVoid ==
  <<
  [ line |-> 991, kind |-> "function", storage |-> "extern", body |-> FALSE,
    ret |-> <<"void">>, name |-> <<"zx_", "cprng_draw">>,
    voidList |-> FALSE,
    params |-> <<
        [tags |-> <<>>, type |-> <<"void", "*">>, name |-> "buffer"],
        [tags |-> <<>>, type |-> <<"size_t">>, name |-> "buffer_size"] >>,
    attrs |-> <<[attr |-> "__LEAF_FN", args |-> <<>>]>> ],
  [ line |-> 995, kind |-> "function", storage |-> "extern", body |-> FALSE,
    ret |-> <<"void">>, name |-> <<"_", "zx_", "cprng_draw">>,
    voidList |-> FALSE,
    params |-> <<
        [tags |-> <<>>, type |-> <<"void", "*">>, name |-> "buffer"],
        [tags |-> <<>>, type |-> <<"size_t">>, name |-> "buffer_size"] >>,
    attrs |-> <<[attr |-> "__LEAF_FN", args |-> <<>>]>> ],
  [ line |-> 999, kind |-> "function", storage |-> "extern", body |-> FALSE,
    ret |-> <<"void">>, name |-> <<"zx_", "cprng_add_entropy">>,
    voidList |-> FALSE,
    params |-> <<
        [tags |-> <<>>, type |-> <<"const", "void", "*">>, name |-> "buffer"],
        [tags |-> <<>>, type |-> <<"size_t">>, name |-> "buffer_size"] >>,
    attrs |-> <<[attr |-> "__LEAF_FN", args |-> <<>>]>> ],
  [ line |-> 1003, kind |-> "function", storage |-> "extern", body |-> FALSE,
    ret |-> <<"void">>, name |-> <<"_", "zx_", "cprng_add_entropy">>,
    voidList |-> FALSE,
    params |-> <<
        [tags |-> <<>>, type |-> <<"const", "void", "*">>, name |-> "buffer"],
        [tags |-> <<>>, type |-> <<"size_t">>, name |-> "buffer_size"] >>,
    attrs |-> <<[attr |-> "__LEAF_FN", args |-> <<>>]>> ]
  >>

\* definitions.h lines 991-1005: zx_cprng_draw .. zx_cprng_add_entropy, each followed by its _zx_ variant.
Decls_cprng ==
  <<
  [ line |-> 991, kind |-> "function", storage |-> "extern", body |-> FALSE,
    ret |-> <<"void">>, name |-> <<"zx_", "cprng_draw">>,
    voidList |-> FALSE,
    params |-> <<
        [tags |-> <<>>, type |-> <<"void", "*">>, name |-> "buffer"],
        [tags |-> <<>>, type |-> <<"size_t">>, name |-> "buffer_size"] >>,
    attrs |-> <<[attr |-> "__LEAF_FN", args |-> <<>>]>> ],
  [ line |-> 995, kind |-> "function", storage |-> "extern", body |-> FALSE,
    ret |-> <<"void">>, name |-> <<"_", "zx_", "cprng_draw">>,
    voidList |-> FALSE,
    params |-> <<
        [tags |-> <<>>, type |-> <<"void", "*">>, name |-> "buffer"],
        [tags |-> <<>>, type |-> <<"size_t">>, name |-> "buffer_size"] >>,
    attrs |-> <<[attr |-> "__LEAF_FN", args |-> <<>>]>> ],
  [ line |-> 999, kind |-> "function", storage |-> "extern", body |-> FALSE,
    ret |-> <<"zx_status_t">>, name |-> <<"zx_", "cprng_add_entropy">>,
    voidList |-> FALSE,
    params |-> <<
        [tags |-> <<>>, type |-> <<"const", "void", "*">>, name |-> "buffer"],
        [tags |-> <<>>, type |-> <<"size_t">>, name |-> "buffer_size"] >>,
    attrs |-> <<[attr |-> "__LEAF_FN", args |-> <<>>]>> ],
  [ line |-> 1003, kind |-> "function", storage |-> "extern", body |-> FALSE,
    ret |-> <<"zx_status_t">>, name |-> <<"_", "zx_", "cprng_add_entropy">>,
    voidList |-> FALSE,
    params |-> <<
        [tags |-> <<>>, type |-> <<"const", "void", "*">>, name |-> "buffer"],
        [tags |-> <<>>, type |-> <<"size_t">>, name |-> "buffer_size"] >>,
    attrs |-> <<[attr |-> "__LEAF_FN", args |-> <<>>]>> ]
  >>

\* definitions.h lines 1007-1047: zx_fifo_create .. zx_fifo_write, each followed by its _zx_ variant.
Decls_fifo ==
  <<
  [ line |-> 1007, kind |-> "function", storage |-> "extern", body |-> FALSE,
    ret |-> <<"zx_status_t">>, name |-> <<"zx_", "fifo_create">>,
    voidList |-> FALSE,
    params |-> <<
        [tags |-> <<>>, type |-> <<"size_t">>, name |-> "elem_count"],
        [tags |-> <<>>, type |-> <<"size_t">>, name |-> "elem_size"],
        [tags |-> <<>>, type |-> <<"uint32_t">>, name |-> "options"],
        [tags |-> <<"handle_acquire">>, type |-> <<"zx_handle_t", "*">>, name |-> "out0"],
        [tags |-> <<"handle_acquire">>, type |-> <<"zx_handle_t", "*">>, name |-> "out1"] >>,
    attrs |-> <<[attr |-> "__NONNULL", args |-> <<4, 5>>], [attr |-> "__LEAF_FN", args |-> <<>>]>> ],
  [ line |-> 1014, kind |-> "function", storage |-> "extern", body |-> FALSE,
    ret |-> <<"zx_status_t">>, name |-> <<"_", "zx_", "fifo_create">>,
    voidList |-> FALSE,
    params |-> <<
        [tags |-> <<>>, type |-> <<"size_t">>, name |-> "elem_count"],
        [tags |-> <<>>, type |-> <<"size_t">>, name |-> "elem_size"],
        [tags |-> <<>>, type |-> <<"uint32_t">>, name |-> "options"],
        [tags |-> <<"handle_acquire">>, type |-> <<"zx_handle_t", "*">>, name |-> "out0"],
        [tags |-> <<"handle_acquire">>, type |-> <<"zx_handle_t", "*">>, name |-> "out1"] >>,
    attrs |-> <<[attr |-> "__NONNULL", args |-> <<4, 5>>], [attr |-> "__LEAF_FN", args |-> <<>>]>> ],
  [ line |-> 1021, kind |-> "function", storage |-> "extern", body |-> FALSE,
    ret |-> <<"zx_status_t">>, name |-> <<"zx_", "fifo_read">>,
    voidList |-> FALSE,
    params |-> <<
        [tags |-> <<"handle_use">>, type |-> <<"zx_handle_t">>, name |-> "handle"],
        [tags |-> <<>>, type |-> <<"size_t">>, name |-> "elem_size"],
        [tags |-> <<>>, type |-> <<"void", "*">>, name |-> "data"],
        [tags |-> <<>>, type |-> <<"size_t">>, name |-> "count"],
        [tags |-> <<>>, type |-> <<"size_t", "*">>, name |-> "actual_count"] >>,
    attrs |-> <<[attr |-> "__LEAF_FN", args |-> <<>>]>> ],
  [ line |-> 1028, kind |-> "function", storage |-> "extern", body |-> FALSE,
    ret |-> <<"zx_status_t">>, name |-> <<"_", "zx_", "fifo_read">>,
    voidList |-> FALSE,
    params |-> <<
        [tags |-> <<"handle_use">>, type |-> <<"zx_handle_t">>, name |-> "handle"],
        [tags |-> <<>>, type |-> <<"size_t">>, name |-> "elem_size"],
        [tags |-> <<>>, type |-> <<"void", "*">>, name |-> "data"],
        [tags |-> <<>>, type |-> <<"size_t">>, name |-> "count"],
        [tags |-> <<>>, type |-> <<"size_t", "*">>, name |-> "actual_count"] >>,
    attrs |-> <<[attr |-> "__LEAF_FN", args |-> <<>>]>> ],
  [ line |-> 1035, kind |-> "function", storage |-> "extern", body |-> FALSE,
    ret |-> <<"zx_status_t">>, name |-> <<"zx_", "fifo_write">>,
    voidList |-> FALSE,
    params |-> <<
        [tags |-> <<"handle_use">>, type |-> <<"zx_handle_t">>, name |-> "handle"],
        [tags |-> <<>>, type |-> <<"size_t">>, name |-> "elem_size"],
        [tags |-> <<>>, type |-> <<"const", "void", "*">>, name |-> "data"],
        [tags |-> <<>>, type |-> <<"size_t">>, name |-> "count"],
        [tags |-> <<>>, type |-> <<"size_t", "*">>, name |-> "actual_count"] >>,
    attrs |-> <<[attr |-> "__LEAF_FN", args |-> <<>>]>> ],
  [ line |-> 1042, kind |-> "function", storage |-> "extern", body |-> FALSE,
    ret |-> <<"zx_status_t">>, name |-> <<"_", "zx_", "fifo_write">>,
    voidList |-> FALSE,
    params |-> <<
        [tags |-> <<"handle_use">>, type |-> <<"zx_handle_t">>, name |-> "handle"],
        [tags |-> <<>>, type |-> <<"size_t">>, name |-> "elem_size"],
        [tags |-> <<>>, type |-> <<"const", "void", "*">>, name |-> "data"],
        [tags |-> <<>>, type |-> <<"size_t">>, name |-> "count"],
        [tags |-> <<>>, type |-> <<"size_t", "*">>, name |-> "actual_count"] >>,
    attrs |-> <<[attr |-> "__LEAF_FN", args |-> <<>>]>> ]
  >>

\* definitions.h lines 1049-1057: zx_profile_create, each followed by its _zx_ variant.
Decls_profile ==
  <<
  [ line |-> 1049, kind |-> "function", storage |-> "extern", body |-> FALSE,
    ret |-> <<"zx_status_t">>, name |-> <<"zx_", "profile_create">>,
    voidList |-> FALSE,
    params |-> <<
        [tags |-> <<"handle_use">>, type |-> <<"zx_handle_t">>, name |-> "root_job"],
        [tags |-> <<>>, type |-> <<"const", "zx_profile_info_t", "*">>, name |-> "profile"],
        [tags |-> <<"handle_acquire">>, type |-> <<"zx_handle_t", "*">>, name |-> "out"] >>,
    attrs |-> <<[attr |-> "__NONNULL", args |-> <<3>>], [attr |-> "__LEAF_FN", args |-> <<>>]>> ],
  [ line |-> 1054, kind |-> "function", storage |-> "extern", body |-> FALSE,
    ret |-> <<"zx_status_t">>, name |-> <<"_", "zx_", "profile_create">>,
    voidList |-> FALSE,
    params |-> <<
        [tags |-> <<"handle_use">>, type |-> <<"zx_handle_t">>, name |-> "root_job"],
        [tags |-> <<>>, type |-> <<"const", "zx_profile_info_t", "*">>, name |-> "profile"],
        [tags |-> <<"handle_acquire">>, type |-> <<"zx_handle_t", "*">>, name |-> "out"] >>,
    attrs |-> <<[attr |-> "__NONNULL", args |-> <<3>>], [attr |-> "__LEAF_FN", args |-> <<>>]>> ]
  >>

\* Decls_vmar2 as a slip of the generator would leave it: close_handle is tagged handle_release_always.
Decls_vmar2_ReleaseAlways ==
  <<
  [ line |-> 1059, kind |-> "function", storage |-> "extern", body |-> FALSE,
    ret |-> <<"zx_status_t">>, name |-> <<"zx_", "vmar_unmap_handle_close_thread_exit">>,
    voidList |-> FALSE,
    params |-> <<
        [tags |-> <<"handle_use">>, type |-> <<"zx_handle_t">>, name |-> "vmar_handle"],
        [tags |-> <<>>, type |-> <<"zx_vaddr_t">>, name |-> "addr"],
        [tags |-> <<>>, type |-> <<"size_t">>, name |-> "size"],
        [tags |-> <<"handle_release_always">>, type |-> <<"zx_handle_t">>, name |-> "close_handle"] >>,
    attrs |-> <<[attr |-> "__LEAF_FN", args |-> <<>>]>> ],
  [ line |-> 1065, kind |-> "function", storage |-> "extern", body |-> FALSE,
    ret |-> <<"zx_status_t">>, name |-> <<"_", "zx_", "vmar_unmap_handle_close_thread_exit">>,
    voidList |-> FALSE,
    params |-> <<
        [tags |-> <<"handle_use">>, type |-> <<"zx_handle_t">>, name |-> "vmar_handle"],
        [tags |-> <<>>, type |-> <<"zx_vaddr_t">>, name |-> "addr"],
        [tags |-> <<>>, type |-> <<"size_t">>, name |-> "size"],
        [tags |-> <<"handle_release_always">>, type |-> <<"zx_handle_t">>, name |-> "close_handle"] >>,
    attrs |-> <<[attr |-> "__LEAF_FN", args |-> <<>>]>> ]
  >>

\* definitions.h lines 1059-1069: zx_vmar_unmap_handle_close_thread_exit, each followed by its _zx_ variant.
Decls_vmar2 ==
  <<
  [ line |-> 1059, kind |-> "function", storage |-> "extern", body |-> FALSE,
    ret |-> <<"zx_status_t">>, name |-> <<"zx_", "vmar_unmap_handle_close_thread_exit">>,
    voidList |-> FALSE,
    params |-> <<
        [tags |-> <<"handle_use">>, type |-> <<"zx_handle_t">>, name |-> "vmar_handle"],
        [tags |-> <<>>, type |-> <<"zx_vaddr_t">>, name |-> "addr"],
        [tags |-> <<>>, type |-> <<"size_t">>, name |-> "size"],
        [tags |-> <<"handle_release">>, type |-> <<"zx_handle_t">>, name |-> "close_handle"] >>,
    attrs |-> <<[attr |-> "__LEAF_FN", args |-> <<>>]>> ],
  [ line |-> 1065, kind |-> "function", storage |-> "extern", body |-> FALSE,
    ret |-> <<"zx_status_t">>, name |-> <<"_", "zx_", "vmar_unmap_handle_close_thread_exit">>,
    voidList |-> FALSE,
    params |-> <<
        [tags |-> <<"handle_use">>, type |-> <<"zx_handle_t">>, name |-> "vmar_handle"],
        [tags |-> <<>>, type |-> <<"zx_vaddr_t">>, name |-> "addr"],
        [tags |-> <<>>, type |-> <<"size_t">>, name |-> "size"],
        [tags |-> <<"handle_release">>, type |-> <<"zx_handle_t">>, name |-> "close_handle"] >>,
    attrs |-> <<[attr |-> "__LEAF_FN", args |-> <<>>]>> ]
  >>

\* Decls_futex2 as a slip of the generator would leave it: zx_futex_wake_handle_close_thread_exit returns zx_status_t and still carries __NO_RETURN.
Decls_futex2_ReturnsStatus ==
  <<
  [ line |-> 1071, kind |-> "function", storage |-> "extern", body |-> FALSE,
    ret |-> <<"zx_status_t">>, name |-> <<"zx_", "futex_wake_handle_close_thread_exit">>,
    voidList |-> FALSE,
    params |-> <<
        [tags |-> <<>>, type |-> <<"const", "zx_futex_t", "*">>, name |-> "value_ptr"],
        [tags |-> <<>>, type |-> <<"uint32_t">>, name |-> "count"],
        [tags |-> <<>>, type |-> <<"int32_t">>, name |-> "new_value"],
        [tags |-> <<"handle_release">>, type |-> <<"zx_handle_t">>, name |-> "handle"] >>,
    attrs |-> <<[attr |-> "__LEAF_FN", args |-> <<>>], [attr |-> "__NO_RETURN", args |-> <<>>]>> ],
  [ line |-> 1077, kind |-> "function", storage |-> "extern", body |-> FALSE,
    ret |-> <<"zx_status_t">>, name |-> <<"_", "zx_", "futex_wake_handle_close_thread_exit">>,
    voidList |-> FALSE,
    params |-> <<
        [tags |-> <<>>, type |-> <<"const", "zx_futex_t", "*">>, name |-> "value_ptr"],
        [tags |-> <<>>, type |-> <<"uint32_t">>, name |-> "count"],
        [tags |-> <<>>, type |-> <<"int32_t">>, name |-> "new_value"],
        [tags |-> <<"handle_release">>, type |-> <<"zx_handle_t">>, name |-> "handle"] >>,
    attrs |-> <<[attr |-> "__LEAF_FN", args |-> <<>>], [attr |-> "__NO_RETURN", args |-> <<>>]>> ]
  >>

\* definitions.h lines 1071-1081: zx_futex_wake_handle_close_thread_exit, each followed by its _zx_ variant.
Decls_futex2 ==
  <<
  [ line |-> 1071, kind |-> "function", storage |-> "extern", body |-> FALSE,
    ret |-> <<"void">>, name |-> <<"zx_", "futex_wake_handle_close_thread_exit">>,
    voidList |-> FALSE,
    params |-> <<
        [tags |-> <<>>, type |-> <<"const", "zx_futex_t", "*">>, name |-> "value_ptr"],
        [tags |-> <<>>, type |-> <<"uint32_t">>, name |-> "count"],
        [tags |-> <<>>, type |-> <<"int32_t">>, name |-> "new_value"],
        [tags |-> <<"handle_release">>, type |-> <<"zx_handle_t">>, name |-> "handle"] >>,
    attrs |-> <<[attr |-> "__LEAF_FN", args |-> <<>>], [attr |-> "__NO_RETURN", args |-> <<>>]>> ],
  [ line |-> 1077, kind |-> "function", storage |-> "extern", body |-> FALSE,
    ret |-> <<"void">>, name |-> <<"_", "zx_", "futex_wake_handle_close_thread_exit">>,
    voidList |-> FALSE,
    params |-> <<
        [tags |-> <<>>, type |-> <<"const", "zx_futex_t", "*">>, name |-> "value_ptr"],
        [tags |-> <<>>, type |-> <<"uint32_t">>, name |-> "count"],
        [tags |-> <<>>, type |-> <<"int32_t">>, name |-> "new_value"],
        [tags |-> <<"handle_release">>, type |-> <<"zx_handle_t">>, name |-> "handle"] >>,
    attrs |-> <<[attr |-> "__LEAF_FN", args |-> <<>>], [attr |-> "__NO_RETURN", args |-> <<>>]>> ]
  >>

\* definitions.h lines 1083-1105: zx_log_write .. zx_log_read, each followed by its _zx_ variant.
Decls_log ==
  <<
  [ line |-> 1083, kind |-> "function", storage |-> "extern", body |-> FALSE,
    ret |-> <<"zx_status_t">>, name |-> <<"zx_", "log_write">>,
    voidList |-> FALSE,
    params |-> <<
        [tags |-> <<"handle_use">>, type |-> <<"zx_handle_t">>, name |-> "handle"],
        [tags |-> <<>>, type |-> <<"uint32_t">>, name |-> "len"],
        [tags |-> <<>>, type |-> <<"const", "void", "*">>, name |-> "buffer"],
        [tags |-> <<>>, type |-> <<"uint32_t">>, name |-> "options"] >>,
    attrs |-> <<[attr |-> "__LEAF_FN", args |-> <<>>]>> ],
  [ line |-> 1089, kind |-> "function", storage |-> "extern", body |-> FALSE,
    ret |-> <<"zx_status_t">>, name |-> <<"_", "zx_", "log_write">>,
    voidList |-> FALSE,
    params |-> <<
        [tags |-> <<"handle_use">>, type |-> <<"zx_handle_t">>, name |-> "handle"],
        [tags |-> <<>>, type |-> <<"uint32_t">>, name |-> "len"],
        [tags |-> <<>>, type |-> <<"const", "void", "*">>, name |-> "buffer"],
        [tags |-> <<>>, type |-> <<"uint32_t">>, name |-> "options"] >>,
    attrs |-> <<[attr |-> "__LEAF_FN", args |-> <<>>]>> ],
  [ line |-> 1095, kind |-> "function", storage |-> "extern", body |-> FALSE,
    ret |-> <<"zx_status_t">>, name |-> <<"zx_", "log_read">>,
    voidList |-> FALSE,
    params |-> <<
        [tags |-> <<"handle_use">>, type |-> <<"zx_handle_t">>, name |-> "handle"],
        [tags |-> <<>>, type |-> <<"uint32_t">>, name |-> "len"],
        [tags |-> <<>>, type |-> <<"void", "*">>, name |-> "buffer"],
        [tags |-> <<>>, type |-> <<"uint32_t">>, name |-> "options"] >>,
    attrs |-> <<[attr |-> "__LEAF_FN", args |-> <<>>]>> ],
  [ line |-> 1101, kind |-> "function", storage |-> "extern", body |-> FALSE,
    ret |-> <<"zx_status_t">>, name |-> <<"_", "zx_", "log_read">>,
    voidList |-> FALSE,
    params |-> <<
        [tags |-> <<"handle_use">>, type |-> <<"zx_handle_t">>, name |-> "handle"],
        [tags |-> <<>>, type |-> <<"uint32_t">>, name |-> "len"],
        [tags |-> <<>>, type |-> <<"void", "*">>, name |-> "buffer"],
        [tags |-> <<>>, type |-> <<"uint32_t">>, name |-> "options"] >>,
    attrs |-> <<[attr |-> "__LEAF_FN", args |-> <<>>]>> ]
  >>

\* definitions.h lines 1107-1139: zx_debuglog_create .. zx_debuglog_read, each followed by its _zx_ variant.
Decls_debuglog ==
  <<
  [ line |-> 1107, kind |-> "function", storage |-> "extern", body |-> FALSE,
    ret |-> <<"zx_status_t">>, name |-> <<"zx_", "debuglog_create">>,
    voidList |-> FALSE,
    params |-> <<
        [tags |-> <<"handle_use">>, type |-> <<"zx_handle_t">>, name |-> "resource"],
        [tags |-> <<>>, type |-> <<"uint32_t">>, name |-> "options"],
        [tags |-> <<"handle_acquire">>, type |-> <<"zx_handle_t", "*">>, name |-> "out"] >>,
    attrs |-> <<[attr |-> "__NONNULL", args |-> <<3>>], [attr |-> "__LEAF_FN", args |-> <<>>]>> ],
  [ line |-> 1112, kind |-> "function", storage |-> "extern", body |-> FALSE,
    ret |-> <<"zx_status_t">>, name |-> <<"_", "zx_", "debuglog_create">>,
    voidList |-> FALSE,
    params |-> <<
        [tags |-> <<"handle_use">>, type |-> <<"zx_handle_t">>, name |-> "resource"],
        [tags |-> <<>>, type |-> <<"uint32_t">>, name |-> "options"],
        [tags |-> <<"handle_acquire">>, type |-> <<"zx_handle_t", "*">>, name |-> "out"] >>,
    attrs |-> <<[attr |-> "__NONNULL", args |-> <<3>>], [attr |-> "__LEAF_FN", args |-> <<>>]>> ],
  [ line |-> 1117, kind |-> "function", storage |-> "extern", body |-> FALSE,
    ret |-> <<"zx_status_t">>, name |-> <<"zx_", "debuglog_write">>,
    voidList |-> FALSE,
    params |-> <<
        [tags |-> <<"handle_use">>, type |-> <<"zx_handle_t">>, name |-> "handle"],
        [tags |-> <<>>, type |-> <<"uint32_t">>, name |-> "options"],
        [tags |-> <<>>, type |-> <<"const", "void", "*">>, name |-> "buffer"],
        [tags |-> <<>>, type |-> <<"size_t">>, name |-> "buffer_size"] >>,
    attrs |-> <<[attr |-> "__LEAF_FN", args |-> <<>>]>> ],
  [ line |-> 1123, kind |-> "function", storage |-> "extern", body |-> FALSE,
    ret |-> <<"zx_status_t">>, name |-> <<"_", "zx_", "debuglog_write">>,
    voidList |-> FALSE,
    params |-> <<
        [tags |-> <<"handle_use">>, type |-> <<"zx_handle_t">>, name |-> "handle"],
        [tags |-> <<>>, type |-> <<"uint32_t">>, name |-> "options"],
        [tags |-> <<>>, type |-> <<"const", "void", "*">>, name |-> "buffer"],
        [tags |-> <<>>, type |-> <<"size_t">>, name |-> "buffer_size"] >>,
    attrs |-> <<[attr |-> "__LEAF_FN", args |-> <<>>]>> ],
  [ line |-> 1129, kind |-> "function", storage |-> "extern", body |-> FALSE,
    ret |-> <<"zx_status_t">>, name |-> <<"zx_", "debuglog_read">>,
    voidList |-> FALSE,
    params |-> <<
        [tags |-> <<"handle_use">>, type |-> <<"zx_handle_t">>, name |-> "handle"],
        [tags |-> <<>>, type |-> <<"uint32_t">>, name |-> "options"],
        [tags |-> <<>>, type |-> <<"void", "*">>, name |-> "buffer"],
        [tags |-> <<>>, type |-> <<"size_t">>, name |-> "buffer_size"] >>,
    attrs |-> <<[attr |-> "__LEAF_FN", args |-> <<>>]>> ],
  [ line |-> 1135, kind |-> "function", storage |-> "extern", body |-> FALSE,
    ret |-> <<"zx_status_t">>, name |-> <<"_", "zx_", "debuglog_read">>,
    voidList |-> FALSE,
    params |-> <<
        [tags |-> <<"handle_use">>, type |-> <<"zx_handle_t">>, name |-> "handle"],
        [tags |-> <<>>, type |-> <<"uint32_t">>, name |-> "options"],
        [tags |-> <<>>, type |-> <<"void", "*">>, name |-> "buffer"],
        [tags |-> <<>>, type |-> <<"size_t">>, name |-> "buffer_size"] >>,
    attrs |-> <<[attr |-> "__LEAF_FN", args |-> <<>>]>> ]
  >>

\* definitions.h lines 1141-1177: zx_ktrace_read .. zx_ktrace_write, each followed by its _zx_ variant.
Decls_ktrace ==
  <<
  [ line |-> 1141, kind |-> "function", storage |-> "extern", body |-> FALSE,
    ret |-> <<"zx_status_t">>, name |-> <<"zx_", "ktrace_read">>,
    voidList |-> FALSE,
    params |-> <<
        [tags |-> <<"handle_use">>, type |-> <<"zx_handle_t">>, name |-> "handle"],
        [tags |-> <<>>, type |-> <<"void", "*">>, name |-> "data"],
        [tags |-> <<>>, type |-> <<"uint32_t">>, name |-> "offset"],
        [tags |-> <<>>, type |-> <<"size_t">>, name |-> "data_size"],
        [tags |-> <<>>, type |-> <<"size_t", "*">>, name |-> "actual"] >>,
    attrs |-> <<[attr |-> "__NONNULL", args |-> <<5>>], [attr |-> "__LEAF_FN", args |-> <<>>]>> ],
  [ line |-> 1148, kind |-> "function", storage |-> "extern", body |-> FALSE,
    ret |-> <<"zx_status_t">>, name |-> <<"_", "zx_", "ktrace_read">>,
    voidList |-> FALSE,
    params |-> <<
        [tags |-> <<"handle_use">>, type |-> <<"zx_handle_t">>, name |-> "handle"],
        [tags |-> <<>>, type |-> <<"void", "*">>, name |-> "data"],
        [tags |-> <<>>, type |-> <<"uint32_t">>, name |-> "offset"],
        [tags |-> <<>>, type |-> <<"size_t">>, name |-> "data_size"],
        [tags |-> <<>>, type |-> <<"size_t", "*">>, name |-> "actual"] >>,
    attrs |-> <<[attr |-> "__NONNULL", args |-> <<5>>], [attr |-> "__LEAF_FN", args |-> <<>>]>> ],
  [ line |-> 1155, kind |-> "function", storage |-> "extern", body |-> FALSE,
    ret |-> <<"zx_status_t">>, name |-> <<"zx_", "ktrace_control">>,
    voidList |-> FALSE,
    params |-> <<
        [tags |-> <<"handle_use">>, type |-> <<"zx_handle_t">>, name |-> "handle"],
        [tags |-> <<>>, type |-> <<"uint32_t">>, name |-> "action"],
        [tags |-> <<>>, type |-> <<"uint32_t">>, name |-> "options"],
        [tags |-> <<>>, type |-> <<"void", "*">>, name |-> "ptr"] >>,
    attrs |-> <<[attr |-> "__LEAF_FN", args |-> <<>>]>> ],
  [ line |-> 1161, kind |-> "function", storage |-> "extern", body |-> FALSE,
    ret |-> <<"zx_status_t">>, name |-> <<"_", "zx_", "ktrace_control">>,
    voidList |-> FALSE,
    params |-> <<
        [tags |-> <<"handle_use">>, type |-> <<"zx_handle_t">>, name |-> "handle"],
        [tags |-> <<>>, type |-> <<"uint32_t">>, name |-> "action"],
        [tags |-> <<>>, type |-> <<"uint32_t">>, name |-> "options"],
        [tags |-> <<>>, type |-> <<"void", "*">>, name |-> "ptr"] >>,
    attrs |-> <<[attr |-> "__LEAF_FN", args |-> <<>>]>> ],
  [ line |-> 1167, kind |-> "function", storage |-> "extern", body |-> FALSE,
    ret |-> <<"zx_status_t">>, name |-> <<"zx_", "ktrace_write">>,
    voidList |-> FALSE,
    params |-> <<
        [tags |-> <<"handle_use">>, type |-> <<"zx_handle_t">>, name |-> "handle"],
        [tags |-> <<>>, type |-> <<"uint32_t">>, name |-> "id"],
        [tags |-> <<>>, type |-> <<"uint32_t">>, name |-> "arg0"],
        [tags |-> <<>>, type |-> <<"uint32_t">>, name |-> "arg1"] >>,
    attrs |-> <<[attr |-> "__LEAF_FN", args |-> <<>>]>> ],
  [ line |-> 1173, kind |-> "function", storage |-> "extern", body |-> FALSE,
    ret |-> <<"zx_status_t">>, name |-> <<"_", "zx_", "ktrace_write">>,
    voidList |-> FALSE,
    params |-> <<
        [tags |-> <<"handle_use">>, type |-> <<"zx_handle_t">>, name |-> "handle"],
        [tags |-> <<>>, type |-> <<"uint32_t">>, name |-> "id"],
        [tags |-> <<>>, type |-> <<"uint32_t">>, name |-> "arg0"],
        [tags |-> <<>>, type |-> <<"uint32_t">>, name |-> "arg1"] >>,
    attrs |-> <<[attr |-> "__LEAF_FN", args |-> <<>>]>> ]
  >>

\* definitions.h lines 1179-1193: zx_mtrace_control, each followed by its _zx_ variant.
Decls_mtrace ==
  <<
  [ line |-> 1179, kind |-> "function", storage |-> "extern", body |-> FALSE,
    ret |-> <<"zx_status_t">>, name |-> <<"zx_", "mtrace_control">>,
    voidList |-> FALSE,
    params |-> <<
        [tags |-> <<"handle_use">>, type |-> <<"zx_handle_t">>, name |-> "handle"],
        [tags |-> <<>>, type |-> <<"uint32_t">>, name |-> "kind"],
        [tags |-> <<>>, type |-> <<"uint32_t">>, name |-> "action"],
        [tags |-> <<>>, type |-> <<"uint32_t">>, name |-> "options"],
        [tags |-> <<>>, type |-> <<"void", "*">>, name |-> "ptr"],
        [tags |-> <<>>, type |-> <<"size_t">>, name |-> "ptr_size"] >>,
    attrs |-> <<[attr |-> "__LEAF_FN", args |-> <<>>]>> ],
  [ line |-> 1187, kind |-> "function", storage |-> "extern", body |-> FALSE,
    ret |-> <<"zx_status_t">>, name |-> <<"_", "zx_", "mtrace_control">>,
    voidList |-> FALSE,
    params |-> <<
        [tags |-> <<"handle_use">>, type |-> <<"zx_handle_t">>, name |-> "handle"],
        [tags |-> <<>>, type |-> <<"uint32_t">>, name |-> "kind"],
        [tags |-> <<>>, type |-> <<"uint32_t">>, name |-> "action"],
        [tags |-> <<>>, type |-> <<"uint32_t">>, name |-> "options"],
        [tags |-> <<>>, type |-> <<"void", "*">>, name |-> "ptr"],
        [tags |-> <<>>, type |-> <<"size_t">>, name |-> "ptr_size"] >>,
    attrs |-> <<[attr |-> "__LEAF_FN", args |-> <<>>]>> ]
  >>

\* definitions.h lines 1195-1221: zx_debug_read .. zx_debug_send_command, each followed by its _zx_ variant.
Decls_debug ==
  <<
  [ line |-> 1195, kind |-> "function", storage |-> "extern", body |-> FALSE,
    ret |-> <<"zx_status_t">>, name |-> <<"zx_", "debug_read">>,
    voidList |-> FALSE,
    params |-> <<
        [tags |-> <<"handle_use">>, type |-> <<"zx_handle_t">>, name |-> "handle"],
        [tags |-> <<>>, type |-> <<"char", "*">>, name |-> "buffer"],
        [tags |-> <<>>, type |-> <<"size_t", "*">>, name |-> "buffer_size"] >>,
    attrs |-> <<[attr |-> "__LEAF_FN", args |-> <<>>]>> ],
  [ line |-> 1200, kind |-> "function", storage |-> "extern", body |-> FALSE,
    ret |-> <<"zx_status_t">>, name |-> <<"_", "zx_", "debug_read">>,
    voidList |-> FALSE,
    params |-> <<
        [tags |-> <<"handle_use">>, type |-> <<"zx_handle_t">>, name |-> "handle"],
        [tags |-> <<>>, type |-> <<"char", "*">>, name |-> "buffer"],
        [tags |-> <<>>, type |-> <<"size_t", "*">>, name |-> "buffer_size"] >>,
    attrs |-> <<[attr |-> "__LEAF_FN", args |-> <<>>]>> ],
  [ line |-> 1205, kind |-> "function", storage |-> "extern", body |-> FALSE,
    ret |-> <<"zx_status_t">>, name |-> <<"zx_", "debug_write">>,
    voidList |-> FALSE,
    params |-> <<
        [tags |-> <<>>, type |-> <<"const", "char", "*">>, name |-> "buffer"],
        [tags |-> <<>>, type |-> <<"size_t">>, name |-> "buffer_size"] >>,
    attrs |-> <<[attr |-> "__LEAF_FN", args |-> <<>>]>> ],
  [ line |-> 1209, kind |-> "function", storage |-> "extern", body |-> FALSE,
    ret |-> <<"zx_status_t">>, name |-> <<"_", "zx_", "debug_write">>,
    voidList |-> FALSE,
    params |-> <<
        [tags |-> <<>>, type |-> <<"const", "char", "*">>, name |-> "buffer"],
        [tags |-> <<>>, type |-> <<"size_t">>, name |-> "buffer_size"] >>,
    attrs |-> <<[attr |-> "__LEAF_FN", args |-> <<>>]>> ],
  [ line |-> 1213, kind |-> "function", storage |-> "extern", body |-> FALSE,
    ret |-> <<"zx_status_t">>, name |-> <<"zx_", "debug_send_command">>,
    voidList |-> FALSE,
    params |-> <<
        [tags |-> <<"handle_use">>, type |-> <<"zx_handle_t">>, name |-> "resource"],
        [tags |-> <<>>, type |-> <<"const", "char", "*">>, name |-> "buffer"],
        [tags |-> <<>>, type |-> <<"size_t">>, name |-> "buffer_size"] >>,
    attrs |-> <<[attr |-> "__LEAF_FN", args |-> <<>>]>> ],
  [ line |-> 1218, kind |-> "function", storage |-> "extern", body |-> FALSE,
    ret |-> <<"zx_status_t">>, name |-> <<"_", "zx_", "debug_send_command">>,
    voidList |-> FALSE,
    params |-> <<
        [tags |-> <<"handle_use">>, type |-> <<"zx_handle_t">>, name |-> "resource"],
        [tags |-> <<>>, type |-> <<"const", "char", "*">>, name |-> "buffer"],
        [tags |-> <<>>, type |-> <<"size_t">>, name |-> "buffer_size"] >>,
    attrs |-> <<[attr |-> "__LEAF_FN", args |-> <<>>]>> ]
  >>

\* definitions.h lines 1223-1285: zx_interrupt_create .. zx_interrupt_bind_vcpu, each followed by its _zx_ variant.
Decls_interrupt ==
  <<
  [ line |-> 1223, kind |-> "function", storage |-> "extern", body |-> FALSE,
    ret |-> <<"zx_status_t">>, name |-> <<"zx_", "interrupt_create">>,
    voidList |-> FALSE,
    params |-> <<
        [tags |-> <<"handle_use">>, type |-> <<"zx_handle_t">>, name |-> "src_obj"],
        [tags |-> <<>>, type |-> <<"uint32_t">>, name |-> "src_num"],
        [tags |-> <<>>, type |-> <<"uint32_t">>, name |-> "options"],
        [tags |-> <<>>, type |-> <<"zx_handle_t", "*">>, name |-> "out"] >>,
    attrs |-> <<[attr |-> "__NONNULL", args |-> <<4>>], [attr |-> "__LEAF_FN", args |-> <<>>]>> ],
  [ line |-> 1229, kind |-> "function", storage |-> "extern", body |-> FALSE,
    ret |-> <<"zx_status_t">>, name |-> <<"_", "zx_", "interrupt_create">>,
    voidList |-> FALSE,
    params |-> <<
        [tags |-> <<"handle_use">>, type |-> <<"zx_handle_t">>, name |-> "src_obj"],
        [tags |-> <<>>, type |-> <<"uint32_t">>, name |-> "src_num"],
        [tags |-> <<>>, type |-> <<"uint32_t">>, name |-> "options"],
        [tags |-> <<>>, type |-> <<"zx_handle_t", "*">>, name |-> "out"] >>,
    attrs |-> <<[attr |-> "__NONNULL", args |-> <<4>>], [attr |-> "__LEAF_FN", args |-> <<>>]>> ],
  [ line |-> 1235, kind |-> "function", storage |-> "extern", body |-> FALSE,
    ret |-> <<"zx_status_t">>, name |-> <<"zx_", "interrupt_bind">>,
    voidList |-> FALSE,
    params |-> <<
        [tags |-> <<"handle_use">>, type |-> <<"zx_handle_t">>, name |-> "handle"],
        [tags |-> <<"handle_use">>, type |-> <<"zx_handle_t">>, name |-> "port"],
        [tags |-> <<>>, type |-> <<"uint64_t">>, name |-> "key"],
        [tags |-> <<>>, type |-> <<"uint32_t">>, name |-> "options"] >>,
    attrs |-> <<[attr |-> "__LEAF_FN", args |-> <<>>]>> ],
  [ line |-> 1241, kind |-> "function", storage |-> "extern", body |-> FALSE,
    ret |-> <<"zx_status_t">>, name |-> <<"_", "zx_", "interrupt_bind">>,
    voidList |-> FALSE,
    params |-> <<
        [tags |-> <<"handle_use">>, type |-> <<"zx_handle_t">>, name |-> "handle"],
        [tags |-> <<"handle_use">>, type |-> <<"zx_handle_t">>, name |-> "port"],
        [tags |-> <<>>, type |-> <<"uint64_t">>, name |-> "key"],
        [tags |-> <<>>, type |-> <<"uint32_t">>, name |-> "options"] >>,
    attrs |-> <<[attr |-> "__LEAF_FN", args |-> <<>>]>> ],
  [ line |-> 1247, kind |-> "function", storage |-> "extern", body |-> FALSE,
    ret |-> <<"zx_status_t">>, name |-> <<"zx_", "interrupt_wait">>,
    voidList |-> FALSE,
    params |-> <<
        [tags |-> <<"handle_use">>, type |-> <<"zx_handle_t">>, name |-> "handle"],
        [tags |-> <<>>, type |-> <<"zx_time_t", "*">>, name |-> "out_timestamp"] >>,
    attrs |-> <<[attr |-> "__LEAF_FN", args |-> <<>>]>> ],
  [ line |-> 1251, kind |-> "function", storage |-> "extern", body |-> FALSE,
    ret |-> <<"zx_status_t">>, name |-> <<"_", "zx_", "interrupt_wait">>,
    voidList |-> FALSE,
    params |-> <<
        [tags |-> <<"handle_use">>, type |-> <<"zx_handle_t">>, name |-> "handle"],
        [tags |-> <<>>, type |-> <<"zx_time_t", "*">>, name |-> "out_timestamp"] >>,
    attrs |-> <<[attr |-> "__LEAF_FN", args |-> <<>>]>> ],
  [ line |-> 1255, kind |-> "function", storage |-> "extern", body |-> FALSE,
    ret |-> <<"zx_status_t">>, name |-> <<"zx_", "interrupt_destroy">>,
    voidList |-> FALSE,
    params |-> <<
        [tags |-> <<"handle_use">>, type |-> <<"zx_handle_t">>, name |-> "handle"] >>,
    attrs |-> <<[attr |-> "__LEAF_FN", args |-> <<>>]>> ],
  [ line |-> 1258, kind |-> "function", storage |-> "extern", body |-> FALSE,
    ret |-> <<"zx_status_t">>, name |-> <<"_", "zx_", "interrupt_destroy">>,
    voidList |-> FALSE,
    params |-> <<
        [tags |-> <<"handle_use">>, type |-> <<"zx_handle_t">>, name |-> "handle"] >>,
    attrs |-> <<[attr |-> "__LEAF_FN", args |-> <<>>]>> ],
  [ line |-> 1261, kind |-> "function", storage |-> "extern", body |-> FALSE,
    ret |-> <<"zx_status_t">>, name |-> <<"zx_", "interrupt_ack">>,
    voidList |-> FALSE,
    params |-> <<
        [tags |-> <<"handle_use">>, type |-> <<"zx_handle_t">>, name |-> "handle"] >>,
    attrs |-> <<[attr |-> "__LEAF_FN", args |-> <<>>]>> ],
  [ line |-> 1264, kind |-> "function", storage |-> "extern", body |-> FALSE,
    ret |-> <<"zx_status_t">>, name |-> <<"_", "zx_", "interrupt_ack">>,
    voidList |-> FALSE,
    params |-> <<
        [tags |-> <<"handle_use">>, type |-> <<"zx_handle_t">>, name |-> "handle"] >>,
    attrs |-> <<[attr |-> "__LEAF_FN", args |-> <<>>]>> ],
  [ line |-> 1267, kind |-> "function", storage |-> "extern", body |-> FALSE,
    ret |-> <<"zx_status_t">>, name |-> <<"zx_", "interrupt_trigger">>,
    voidList |-> FALSE,
    params |-> <<
        [tags |-> <<"handle_use">>, type |-> <<"zx_handle_t">>, name |-> "handle"],
        [tags |-> <<>>, type |-> <<"uint32_t">>, name |-> "options"],
        [tags |-> <<>>, type |-> <<"zx_time_t">>, name |-> "timestamp"] >>,
    attrs |-> <<[attr |-> "__LEAF_FN", args |-> <<>>]>> ],
  [ line |-> 1272, kind |-> "function", storage |-> "extern", body |-> FALSE,
    ret |-> <<"zx_status_t">>, name |-> <<"_", "zx_", "interrupt_trigger">>,
    voidList |-> FALSE,
    params |-> <<
        [tags |-> <<"handle_use">>, type |-> <<"zx_handle_t">>, name |-> "handle"],
        [tags |-> <<>>, type |-> <<"uint32_t">>, name |-> "options"],
        [tags |-> <<>>, type |-> <<"zx_time_t">>, name |-> "timestamp"] >>,
    attrs |-> <<[attr |-> "__LEAF_FN", args |-> <<>>]>> ],
  [ line |-> 1277, kind |-> "function", storage |-> "extern", body |-> FALSE,
    ret |-> <<"zx_status_t">>, name |-> <<"zx_", "interrupt_bind_vcpu">>,
    voidList |-> FALSE,
    params |-> <<
        [tags |-> <<"handle_use">>, type |-> <<"zx_handle_t">>, name |-> "handle"],
        [tags |-> <<"handle_use">>, type |-> <<"zx_handle_t">>, name |-> "vcpu"],
        [tags |-> <<>>, type |-> <<"uint32_t">>, name |-> "options"] >>,
    attrs |-> <<[attr |-> "__LEAF_FN", args |-> <<>>]>> ],
  [ line |-> 1282, kind |-> "function", storage |-> "extern", body |-> FALSE,
    ret |-> <<"zx_status_t">>, name |-> <<"_", "zx_", "interrupt_bind_vcpu">>,
    voidList |-> FALSE,
    params |-> <<
        [tags |-> <<"handle_use">>, type |-> <<"zx_handle_t">>, name |-> "handle"],
        [tags |-> <<"handle_use">>, type |-> <<"zx_handle_t">>, name |-> "vcpu"],
        [tags |-> <<>>, type |-> <<"uint32_t">>, name |-> "options"] >>,
    attrs |-> <<[attr |-> "__LEAF_FN", args |-> <<>>]>> ]
  >>

\* definitions.h lines 1287-1295: zx_ioports_request, each followed by its _zx_ variant.
Decls_ioports ==
  <<
  [ line |-> 1287, kind |-> "function", storage |-> "extern", body |-> FALSE,
    ret |-> <<"zx_status_t">>, name |-> <<"zx_", "ioports_request">>,
    voidList |-> FALSE,
    params |-> <<
        [tags |-> <<"handle_use">>, type |-> <<"zx_handle_t">>, name |-> "resource"],
        [tags |-> <<>>, type |-> <<"uint16_t">>, name |-> "io_addr"],
        [tags |-> <<>>, type |-> <<"uint32_t">>, name |-> "len"] >>,
    attrs |-> <<[attr |-> "__LEAF_FN", args |-> <<>>]>> ],
  [ line |-> 1292, kind |-> "function", storage |-> "extern", body |-> FALSE,
    ret |-> <<"zx_status_t">>, name |-> <<"_", "zx_", "ioports_request">>,
    voidList |-> FALSE,
    params |-> <<
        [tags |-> <<"handle_use">>, type |-> <<"zx_handle_t">>, name |-> "resource"],
        [tags |-> <<>>, type |-> <<"uint16_t">>, name |-> "io_addr"],
        [tags |-> <<>>, type |-> <<"uint32_t">>, name |-> "len"] >>,
    attrs |-> <<[attr |-> "__LEAF_FN", args |-> <<>>]>> ]
  >>

\* definitions.h lines 1297-1319: zx_vmo_create_contiguous .. zx_vmo_create_physical, each followed by its _zx_ variant.
Decls_vmo2 ==
  <<
  [ line |-> 1297, kind |-> "function", storage |-> "extern", body |-> FALSE,
    ret |-> <<"zx_status_t">>, name |-> <<"zx_", "vmo_create_contiguous">>,
    voidList |-> FALSE,
    params |-> <<
        [tags |-> <<"handle_use">>, type |-> <<"zx_handle_t">>, name |-> "bti"],
        [tags |-> <<>>, type |-> <<"size_t">>, name |-> "size"],
        [tags |-> <<>>, type |-> <<"uint32_t">>, name |-> "alignment_log2"],
        [tags |-> <<"handle_acquire">>, type |-> <<"zx_handle_t", "*">>, name |-> "out"] >>,
    attrs |-> <<[attr |-> "__NONNULL", args |-> <<4>>], [attr |-> "__LEAF_FN", args |-> <<>>]>> ],
  [ line |-> 1303, kind |-> "function", storage |-> "extern", body |-> FALSE,
    ret |-> <<"zx_status_t">>, name |-> <<"_", "zx_", "vmo_create_contiguous">>,
    voidList |-> FALSE,
    params |-> <<
        [tags |-> <<"handle_use">>, type |-> <<"zx_handle_t">>, name |-> "bti"],
        [tags |-> <<>>, type |-> <<"size_t">>, name |-> "size"],
        [tags |-> <<>>, type |-> <<"uint32_t">>, name |-> "alignment_log2"],
        [tags |-> <<"handle_acquire">>, type |-> <<"zx_handle_t", "*">>, name |-> "out"] >>,
    attrs |-> <<[attr |-> "__NONNULL", args |-> <<4>>], [attr |-> "__LEAF_FN", args |-> <<>>]>> ],
  [ line |-> 1309, kind |-> "function", storage |-> "extern", body |-> FALSE,
    ret |-> <<"zx_status_t">>, name |-> <<"zx_", "vmo_create_physical">>,
    voidList |-> FALSE,
    params |-> <<
        [tags |-> <<"handle_use">>, type |-> <<"zx_handle_t">>, name |-> "resource"],
        [tags |-> <<>>, type |-> <<"zx_paddr_t">>, name |-> "paddr"],
        [tags |-> <<>>, type |-> <<"size_t">>, name |-> "size"],
        [tags |-> <<"handle_acquire">>, type |-> <<"zx_handle_t", "*">>, name |-> "out"] >>,
    attrs |-> <<[attr |-> "__NONNULL", args |-> <<4>>], [attr |-> "__LEAF_FN", args |-> <<>>]>> ],
  [ line |-> 1315, kind |-> "function", storage |-> "extern", body |-> FALSE,
    ret |-> <<"zx_status_t">>, name |-> <<"_", "zx_", "vmo_create_physical">>,
    voidList |-> FALSE,
    params |-> <<
        [tags |-> <<"handle_use">>, type |-> <<"zx_handle_t">>, name |-> "resource"],
        [tags |-> <<>>, type |-> <<"zx_paddr_t">>, name |-> "paddr"],
        [tags |-> <<>>, type |-> <<"size_t">>, name |-> "size"],
        [tags |-> <<"handle_acquire">>, type |-> <<"zx_handle_t", "*">>, name |-> "out"] >>,
    attrs |-> <<[attr |-> "__NONNULL", args |-> <<4>>], [attr |-> "__LEAF_FN", args |-> <<>>]>> ]
  >>

\* definitions.h lines 1321-1333: zx_iommu_create, each followed by its _zx_ variant.
Decls_iommu ==
  <<
  [ line |-> 1321, kind |-> "function", storage |-> "extern", body |-> FALSE,
    ret |-> <<"zx_status_t">>, name |-> <<"zx_", "iommu_create">>,
    voidList |-> FALSE,
    params |-> <<
        [tags |-> <<"handle_use">>, type |-> <<"zx_handle_t">>, name |-> "resource"],
        [tags |-> <<>>, type |-> <<"uint32_t">>, name |-> "type"],
        [tags |-> <<>>, type |-> <<"const", "void", "*">>, name |-> "desc"],
        [tags |-> <<>>, type |-> <<"size_t">>, name |-> "desc_size"],
        [tags |-> <<"handle_acquire">>, type |-> <<"zx_handle_t", "*">>, name |-> "out"] >>,
    attrs |-> <<[attr |-> "__NONNULL", args |-> <<5>>], [attr |-> "__LEAF_FN", args |-> <<>>]>> ],
  [ line |-> 1328, kind |-> "function", storage |-> "extern", body |-> FALSE,
    ret |-> <<"zx_status_t">>, name |-> <<"_", "zx_", "iommu_create">>,
    voidList |-> FALSE,
    params |-> <<
        [tags |-> <<"handle_use">>, type |-> <<"zx_handle_t">>, name |-> "resource"],
        [tags |-> <<>>, type |-> <<"uint32_t">>, name |-> "type"],
        [tags |-> <<>>, type |-> <<"const", "void", "*">>, name |-> "desc"],
        [tags |-> <<>>, type |-> <<"size_t">>, name |-> "desc_size"],
        [tags |-> <<"handle_acquire">>, type |-> <<"zx_handle_t", "*">>, name |-> "out"] >>,
    attrs |-> <<[attr |-> "__NONNULL", args |-> <<5>>], [attr |-> "__LEAF_FN", args |-> <<>>]>> ]
  >>

\* definitions.h lines 1335-1371: zx_bti_create .. zx_bti_release_quarantine, each followed by its _zx_ variant.
Decls_bti ==
  <<
  [ line |-> 1335, kind |-> "function", storage |-> "extern", body |-> FALSE,
    ret |-> <<"zx_status_t">>, name |-> <<"zx_", "bti_create">>,
    voidList |-> FALSE,
    params |-> <<
        [tags |-> <<"handle_use">>, type |-> <<"zx_handle_t">>, name |-> "iommu"],
        [tags |-> <<>>, type |-> <<"uint32_t">>, name |-> "options"],
        [tags |-> <<>>, type |-> <<"uint64_t">>, name |-> "bti_id"],
        [tags |-> <<"handle_acquire">>, type |-> <<"zx_handle_t", "*">>, name |-> "out"] >>,
    attrs |-> <<[attr |-> "__NONNULL", args |-> <<4>>], [attr |-> "__LEAF_FN", args |-> <<>>]>> ],
  [ line |-> 1341, kind |-> "function", storage |-> "extern", body |-> FALSE,
    ret |-> <<"zx_status_t">>, name |-> <<"_", "zx_", "bti_create">>,
    voidList |-> FALSE,
    params |-> <<
        [tags |-> <<"handle_use">>, type |-> <<"zx_handle_t">>, name |-> "iommu"],
        [tags |-> <<>>, type |-> <<"uint32_t">>, name |-> "options"],
        [tags |-> <<>>, type |-> <<"uint64_t">>, name |-> "bti_id"],
        [tags |-> <<"handle_acquire">>, type |-> <<"zx_handle_t", "*">>, name |-> "out"] >>,
    attrs |-> <<[attr |-> "__NONNULL", args |-> <<4>>], [attr |-> "__LEAF_FN", args |-> <<>>]>> ],
  [ line |-> 1347, kind |-> "function", storage |-> "extern", body |-> FALSE,
    ret |-> <<"zx_status_t">>, name |-> <<"zx_", "bti_pin">>,
    voidList |-> FALSE,
    params |-> <<
        [tags |-> <<"handle_use">>, type |-> <<"zx_handle_t">>, name |-> "handle"],
        [tags |-> <<>>, type |-> <<"uint32_t">>, name |-> "options"],
        [tags |-> <<"handle_use">>, type |-> <<"zx_handle_t">>, name |-> "vmo"],
        [tags |-> <<>>, type |-> <<"uint64_t">>, name |-> "offset"],
        [tags |-> <<>>, type |-> <<"uint64_t">>, name |-> "size"],
        [tags |-> <<>>, type |-> <<"zx_paddr_t", "*">>, name |-> "addrs"],
        [tags |-> <<>>, type |-> <<"size_t">>, name |-> "addrs_count"],
        [tags |-> <<"handle_acquire">>, type |-> <<"zx_handle_t", "*">>, name |-> "pmt"] >>,
    attrs |-> <<[attr |-> "__NONNULL", args |-> <<8>>], [attr |-> "__LEAF_FN", args |-> <<>>]>> ],
  [ line |-> 1357, kind |-> "function", storage |-> "extern", body |-> FALSE,
    ret |-> <<"zx_status_t">>, name |-> <<"_", "zx_", "bti_pin">>,
    voidList |-> FALSE,
    params |-> <<
        [tags |-> <<"handle_use">>, type |-> <<"zx_handle_t">>, name |-> "handle"],
        [tags |-> <<>>, type |-> <<"uint32_t">>, name |-> "options"],
        [tags |-> <<"handle_use">>, type |-> <<"zx_handle_t">>, name |-> "vmo"],
        [tags |-> <<>>, type |-> <<"uint64_t">>, name |-> "offset"],
        [tags |-> <<>>, type |-> <<"uint64_t">>, name |-> "size"],
        [tags |-> <<>>, type |-> <<"zx_paddr_t", "*">>, name |-> "addrs"],
        [tags |-> <<>>, type |-> <<"size_t">>, name |-> "addrs_count"],
        [tags |-> <<"handle_acquire">>, type |-> <<"zx_handle_t", "*">>, name |-> "pmt"] >>,
    attrs |-> <<[attr |-> "__NONNULL", args |-> <<8>>], [attr |-> "__LEAF_FN", args |-> <<>>]>> ],
  [ line |-> 1367, kind |-> "function", storage |-> "extern", body |-> FALSE,
    ret |-> <<"zx_status_t">>, name |-> <<"zx_", "bti_release_quarantine">>,
    voidList |-> FALSE,
    params |-> <<
        [tags |-> <<"handle_use">>, type |-> <<"zx_handle_t">>, name |-> "handle"] >>,
    attrs |-> <<[attr |-> "__LEAF_FN", args |-> <<>>]>> ],
  [ line |-> 1370, kind |-> "function", storage |-> "extern", body |-> FALSE,
    ret |-> <<"zx_status_t">>, name |-> <<"_", "zx_", "bti_release_quarantine">>,
    voidList |-> FALSE,
    params |-> <<
        [tags |-> <<"handle_use">>, type |-> <<"zx_handle_t">>, name |-> "handle"] >>,
    attrs |-> <<[attr |-> "__LEAF_FN", args |-> <<>>]>> ]
  >>

\* Decls_pmt as a slip of the generator would leave it: the handle of zx_pmt_unpin is tagged handle_use.
Decls_pmt_HandleUse ==
  <<
  [ line |-> 1373, kind |-> "function", storage |-> "extern", body |-> FALSE,
    ret |-> <<"zx_status_t">>, name |-> <<"zx_", "pmt_unpin">>,
    voidList |-> FALSE,
    params |-> <<
        [tags |-> <<"handle_use">>, type |-> <<"zx_handle_t">>, name |-> "handle"] >>,
    attrs |-> <<[attr |-> "__LEAF_FN", args |-> <<>>]>> ],
  [ line |-> 1376, kind |-> "function", storage |-> "extern", body |-> FALSE,
    ret |-> <<"zx_status_t">>, name |-> <<"_", "zx_", "pmt_unpin">>,
    voidList |-> FALSE,
    params |-> <<
        [tags |-> <<"handle_use">>, type |-> <<"zx_handle_t">>, name |-> "handle"] >>,
    attrs |-> <<[attr |-> "__LEAF_FN", args |-> <<>>]>> ]
  >>

\* definitions.h lines 1373-1377: zx_pmt_unpin, each followed by its _zx_ variant.
Decls_pmt ==
  <<
  [ line |-> 1373, kind |-> "function", storage |-> "extern", body |-> FALSE,
    ret |-> <<"zx_status_t">>, name |-> <<"zx_", "pmt_unpin">>,
    voidList |-> FALSE,
    params |-> <<
        [tags |-> <<"handle_release_always">>, type |-> <<"zx_handle_t">>, name |-> "handle"] >>,
    attrs |-> <<[attr |-> "__LEAF_FN", args |-> <<>>]>> ],
  [ line |-> 1376, kind |-> "function", storage |-> "extern", body |-> FALSE,
    ret |-> <<"zx_status_t">>, name |-> <<"_", "zx_", "pmt_unpin">>,
    voidList |-> FALSE,
    params |-> <<
        [tags |-> <<"handle_release_always">>, type |-> <<"zx_handle_t">>, name |-> "handle"] >>,
    attrs |-> <<[attr |-> "__LEAF_FN", args |-> <<>>]>> ]
  >>

\* definitions.h lines 1379-1409: zx_framebuffer_get_info .. zx_framebuffer_set_range, each followed by its _zx_ variant.
Decls_framebuffer ==
  <<
  [ line |-> 1379, kind |-> "function", storage |-> "extern", body |-> FALSE,
    ret |-> <<"zx_status_t">>, name |-> <<"zx_", "framebuffer_get_info">>,
    voidList |-> FALSE,
    params |-> <<
        [tags |-> <<"handle_use">>, type |-> <<"zx_handle_t">>, name |-> "resource"],
        [tags |-> <<>>, type |-> <<"uint32_t", "*">>, name |-> "format"],
        [tags |-> <<>>, type |-> <<"uint32_t", "*">>, name |-> "width"],
        [tags |-> <<>>, type |-> <<"uint32_t", "*">>, name |-> "height"],
        [tags |-> <<>>, type |-> <<"uint32_t", "*">>, name |-> "stride"] >>,
    attrs |-> <<[attr |-> "__NONNULL", args |-> <<2, 3, 4, 5>>], [attr |-> "__LEAF_FN", args |-> <<>>]>> ],
  [ line |-> 1386, kind |-> "function", storage |-> "extern", body |-> FALSE,
    ret |-> <<"zx_status_t">>, name |-> <<"_", "zx_", "framebuffer_get_info">>,
    voidList |-> FALSE,
    params |-> <<
        [tags |-> <<"handle_use">>, type |-> <<"zx_handle_t">>, name |-> "resource"],
        [tags |-> <<>>, type |-> <<"uint32_t", "*">>, name |-> "format"],
        [tags |-> <<>>, type |-> <<"uint32_t", "*">>, name |-> "width"],
        [tags |-> <<>>, type |-> <<"uint32_t", "*">>, name |-> "height"],
        [tags |-> <<>>, type |-> <<"uint32_t", "*">>, name |-> "stride"] >>,
    attrs |-> <<[attr |-> "__NONNULL", args |-> <<2, 3, 4, 5>>], [attr |-> "__LEAF_FN", args |-> <<>>]>> ],
  [ line |-> 1393, kind |-> "function", storage |-> "extern", body |-> FALSE,
    ret |-> <<"zx_status_t">>, name |-> <<"zx_", "framebuffer_set_range">>,
    voidList |-> FALSE,
    params |-> <<
        [tags |-> <<"handle_use">>, type |-> <<"zx_handle_t">>, name |-> "resource"],
        [tags |-> <<"handle_use">>, type |-> <<"zx_handle_t">>, name |-> "vmo"],
        [tags |-> <<>>, type |-> <<"uint32_t">>, name |-> "len"],
        [tags |-> <<>>, type |-> <<"uint32_t">>, name |-> "format"],
        [tags |-> <<>>, type |-> <<"uint32_t">>, name |-> "width"],
        [tags |-> <<>>, type |-> <<"uint32_t">>, name |-> "height"],
        [tags |-> <<>>, type |-> <<"uint32_t">>, name |-> "stride"] >>,
    attrs |-> <<[attr |-> "__LEAF_FN", args |-> <<>>]>> ],
  [ line |-> 1402, kind |-> "function", storage |-> "extern", body |-> FALSE,
    ret |-> <<"zx_status_t">>, name |-> <<"_", "zx_", "framebuffer_set_range">>,
    voidList |-> FALSE,
    params |-> <<
        [tags |-> <<"handle_use">>, type |-> <<"zx_handle_t">>, name |-> "resource"],
        [tags |-> <<"handle_use">>, type |-> <<"zx_handle_t">>, name |-> "vmo"],
        [tags |-> <<>>, type |-> <<"uint32_t">>, name |-> "len"],
        [tags |-> <<>>, type |-> <<"uint32_t">>, name |-> "format"],
        [tags |-> <<>>, type |-> <<"uint32_t">>, name |-> "width"],
        [tags |-> <<>>, type |-> <<"uint32_t">>, name |-> "height"],
        [tags |-> <<>>, type |-> <<"uint32_t">>, name |-> "stride"] >>,
    attrs |-> <<[attr |-> "__LEAF_FN", args |-> <<>>]>> ]
  >>

\* definitions.h lines 1411-1545: zx_pci_get_nth_device .. zx_pci_add_subtract_io_range, each followed by its _zx_ variant.
Decls_pci ==
  <<
  [ line |-> 1411, kind |-> "function", storage |-> "extern", body |-> FALSE,
    ret |-> <<"zx_status_t">>, name |-> <<"zx_", "pci_get_nth_device">>,
    voidList |-> FALSE,
    params |-> <<
        [tags |-> <<"handle_use">>, type |-> <<"zx_handle_t">>, name |-> "handle"],
        [tags |-> <<>>, type |-> <<"uint32_t">>, name |-> "index"],
        [tags |-> <<>>, type |-> <<"zx_pcie_device_info_t", "*">>, name |-> "out_info"],
        [tags |-> <<"handle_acquire">>, type |-> <<"zx_handle_t", "*">>, name |-> "out_handle"] >>,
    attrs |-> <<[attr |-> "__NONNULL", args |-> <<3, 4>>], [attr |-> "__LEAF_FN", args |-> <<>>]>> ],
  [ line |-> 1417, kind |-> "function", storage |-> "extern", body |-> FALSE,
    ret |-> <<"zx_status_t">>, name |-> <<"_", "zx_", "pci_get_nth_device">>,
    voidList |-> FALSE,
    params |-> <<
        [tags |-> <<"handle_use">>, type |-> <<"zx_handle_t">>, name |-> "handle"],
        [tags |-> <<>>, type |-> <<"uint32_t">>, name |-> "index"],
        [tags |-> <<>>, type |-> <<"zx_pcie_device_info_t", "*">>, name |-> "out_info"],
        [tags |-> <<"handle_acquire">>, type |-> <<"zx_handle_t", "*">>, name |-> "out_handle"] >>,
    attrs |-> <<[attr |-> "__NONNULL", args |-> <<3, 4>>], [attr |-> "__LEAF_FN", args |-> <<>>]>> ],
  [ line |-> 1423, kind |-> "function", storage |-> "extern", body |-> FALSE,
    ret |-> <<"zx_status_t">>, name |-> <<"zx_", "pci_enable_bus_master">>,
    voidList |-> FALSE,
    params |-> <<
        [tags |-> <<"handle_use">>, type |-> <<"zx_handle_t">>, name |-> "handle"],
        [tags |-> <<>>, type |-> <<"bool">>, name |-> "enable"] >>,
    attrs |-> <<[attr |-> "__LEAF_FN", args |-> <<>>]>> ],
  [ line |-> 1427, kind |-> "function", storage |-> "extern", body |-> FALSE,
    ret |-> <<"zx_status_t">>, name |-> <<"_", "zx_", "pci_enable_bus_master">>,
    voidList |-> FALSE,
    params |-> <<
        [tags |-> <<"handle_use">>, type |-> <<"zx_handle_t">>, name |-> "handle"],
        [tags |-> <<>>, type |-> <<"bool">>, name |-> "enable"] >>,
    attrs |-> <<[attr |-> "__LEAF_FN", args |-> <<>>]>> ],
  [ line |-> 1431, kind |-> "function", storage |-> "extern", body |-> FALSE,
    ret |-> <<"zx_status_t">>, name |-> <<"zx_", "pci_reset_device">>,
    voidList |-> FALSE,
    params |-> <<
        [tags |-> <<"handle_use">>, type |-> <<"zx_handle_t">>, name |-> "handle"] >>,
    attrs |-> <<[attr |-> "__LEAF_FN", args |-> <<>>]>> ],
  [ line |-> 1434, kind |-> "function", storage |-> "extern", body |-> FALSE,
    ret |-> <<"zx_status_t">>, name |-> <<"_", "zx_", "pci_reset_device">>,
    voidList |-> FALSE,
    params |-> <<
        [tags |-> <<"handle_use">>, type |-> <<"zx_handle_t">>, name |-> "handle"] >>,
    attrs |-> <<[attr |-> "__LEAF_FN", args |-> <<>>]>> ],
  [ line |-> 1437, kind |-> "function", storage |-> "extern", body |-> FALSE,
    ret |-> <<"zx_status_t">>, name |-> <<"zx_", "pci_config_read">>,
    voidList |-> FALSE,
    params |-> <<
        [tags |-> <<"handle_use">>, type |-> <<"zx_handle_t">>, name |-> "handle"],
        [tags |-> <<>>, type |-> <<"uint16_t">>, name |-> "offset"],
        [tags |-> <<>>, type |-> <<"size_t">>, name |-> "width"],
        [tags |-> <<>>, type |-> <<"uint32_t", "*">>, name |-> "out_val"] >>,
    attrs |-> <<[attr |-> "__LEAF_FN", args |-> <<>>]>> ],
  [ line |-> 1443, kind |-> "function", storage |-> "extern", body |-> FALSE,
    ret |-> <<"zx_status_t">>, name |-> <<"_", "zx_", "pci_config_read">>,
    voidList |-> FALSE,
    params |-> <<
        [tags |-> <<"handle_use">>, type |-> <<"zx_handle_t">>, name |-> "handle"],
        [tags |-> <<>>, type |-> <<"uint16_t">>, name |-> "offset"],
        [tags |-> <<>>, type |-> <<"size_t">>, name |-> "width"],
        [tags |-> <<>>, type |-> <<"uint32_t", "*">>, name |-> "out_val"] >>,
    attrs |-> <<[attr |-> "__LEAF_FN", args |-> <<>>]>> ],
  [ line |-> 1449, kind |-> "function", storage |-> "extern", body |-> FALSE,
    ret |-> <<"zx_status_t">>, name |-> <<"zx_", "pci_config_write">>,
    voidList |-> FALSE,
    params |-> <<
        [tags |-> <<"handle_use">>, type |-> <<"zx_handle_t">>, name |-> "handle"],
        [tags |-> <<>>, type |-> <<"uint16_t">>, name |-> "offset"],
        [tags |-> <<>>, type |-> <<"size_t">>, name |-> "width"],
        [tags |-> <<>>, type |-> <<"uint32_t">>, name |-> "val"] >>,
    attrs |-> <<[attr |-> "__LEAF_FN", args |-> <<>>]>> ],
  [ line |-> 1455, kind |-> "function", storage |-> "extern", body |-> FALSE,
    ret |-> <<"zx_status_t">>, name |-> <<"_", "zx_", "pci_config_write">>,
    voidList |-> FALSE,
    params |-> <<
        [tags |-> <<"handle_use">>, type |-> <<"zx_handle_t">>, name |-> "handle"],
        [tags |-> <<>>, type |-> <<"uint16_t">>, name |-> "offset"],
        [tags |-> <<>>, type |-> <<"size_t">>, name |-> "width"],
        [tags |-> <<>>, type |-> <<"uint32_t">>, name |-> "val"] >>,
    attrs |-> <<[attr |-> "__LEAF_FN", args |-> <<>>]>> ],
  [ line |-> 1461, kind |-> "function", storage |-> "extern", body |-> FALSE,
    ret |-> <<"zx_status_t">>, name |-> <<"zx_", "pci_cfg_pio_rw">>,
    voidList |-> FALSE,
    params |-> <<
        [tags |-> <<"handle_use">>, type |-> <<"zx_handle_t">>, name |-> "handle"],
        [tags |-> <<>>, type |-> <<"uint8_t">>, name |-> "bus"],
        [tags |-> <<>>, type |-> <<"uint8_t">>, name |-> "dev"],
        [tags |-> <<>>, type |-> <<"uint8_t">>, name |-> "func"],
        [tags |-> <<>>, type |-> <<"uint8_t">>, name |-> "offset"],
        [tags |-> <<>>, type |-> <<"uint32_t", "*">>, name |-> "val"],
        [tags |-> <<>>, type |-> <<"size_t">>, name |-> "width"],
        [tags |-> <<>>, type |-> <<"bool">>, name |-> "write"] >>,
    attrs |-> <<[attr |-> "__LEAF_FN", args |-> <<>>]>> ],
  [ line |-> 1471, kind |-> "function", storage |-> "extern", body |-> FALSE,
    ret |-> <<"zx_status_t">>, name |-> <<"_", "zx_", "pci_cfg_pio_rw">>,
    voidList |-> FALSE,
    params |-> <<
        [tags |-> <<"handle_use">>, type |-> <<"zx_handle_t">>, name |-> "handle"],
        [tags |-> <<>>, type |-> <<"uint8_t">>, name |-> "bus"],
        [tags |-> <<>>, type |-> <<"uint8_t">>, name |-> "dev"],
        [tags |-> <<>>, type |-> <<"uint8_t">>, name |-> "func"],
        [tags |-> <<>>, type |-> <<"uint8_t">>, name |-> "offset"],
        [tags |-> <<>>, type |-> <<"uint32_t", "*">>, name |-> "val"],
        [tags |-> <<>>, type |-> <<"size_t">>, name |-> "width"],
        [tags |-> <<>>, type |-> <<"bool">>, name |-> "write"] >>,
    attrs |-> <<[attr |-> "__LEAF_FN", args |-> <<>>]>> ],
  [ line |-> 1481, kind |-> "function", storage |-> "extern", body |-> FALSE,
    ret |-> <<"zx_status_t">>, name |-> <<"zx_", "pci_get_bar">>,
    voidList |-> FALSE,
    params |-> <<
        [tags |-> <<"handle_use">>, type |-> <<"zx_handle_t">>, name |-> "handle"],
        [tags |-> <<>>, type |-> <<"uint32_t">>, name |-> "bar_num"],
        [tags |-> <<>>, type |-> <<"zx_pci_bar_t", "*">>, name |-> "out_bar"],
        [tags |-> <<"handle_acquire">>, type |-> <<"zx_handle_t", "*">>, name |-> "out_handle"] >>,
    attrs |-> <<[attr |-> "__NONNULL", args |-> <<4>>], [attr |-> "__LEAF_FN", args |-> <<>>]>> ],
  [ line |-> 1487, kind |-> "function", storage |-> "extern", body |-> FALSE,
    ret |-> <<"zx_status_t">>, name |-> <<"_", "zx_", "pci_get_bar">>,
    voidList |-> FALSE,
    params |-> <<
        [tags |-> <<"handle_use">>, type |-> <<"zx_handle_t">>, name |-> "handle"],
        [tags |-> <<>>, type |-> <<"uint32_t">>, name |-> "bar_num"],
        [tags |-> <<>>, type |-> <<"zx_pci_bar_t", "*">>, name |-> "out_bar"],
        [tags |-> <<"handle_acquire">>, type |-> <<"zx_handle_t", "*">>, name |-> "out_handle"] >>,
    attrs |-> <<[attr |-> "__NONNULL", args |-> <<4>>], [attr |-> "__LEAF_FN", args |-> <<>>]>> ],
  [ line |-> 1493, kind |-> "function", storage |-> "extern", body |-> FALSE,
    ret |-> <<"zx_status_t">>, name |-> <<"zx_", "pci_map_interrupt">>,
    voidList |-> FALSE,
    params |-> <<
        [tags |-> <<"handle_use">>, type |-> <<"zx_handle_t">>, name |-> "handle"],
        [tags |-> <<>>, type |-> <<"int32_t">>, name |-> "which_irq"],
        [tags |-> <<"handle_acquire">>, type |-> <<"zx_handle_t", "*">>, name |-> "out_handle"] >>,
    attrs |-> <<[attr |-> "__NONNULL", args |-> <<3>>], [attr |-> "__LEAF_FN", args |-> <<>>]>> ],
  [ line |-> 1498, kind |-> "function", storage |-> "extern", body |-> FALSE,
    ret |-> <<"zx_status_t">>, name |-> <<"_", "zx_", "pci_map_interrupt">>,
    voidList |-> FALSE,
    params |-> <<
        [tags |-> <<"handle_use">>, type |-> <<"zx_handle_t">>, name |-> "handle"],
        [tags |-> <<>>, type |-> <<"int32_t">>, name |-> "which_irq"],
        [tags |-> <<"handle_acquire">>, type |-> <<"zx_handle_t", "*">>, name |-> "out_handle"] >>,
    attrs |-> <<[attr |-> "__NONNULL", args |-> <<3>>], [attr |-> "__LEAF_FN", args |-> <<>>]>> ],
  [ line |-> 1503, kind |-> "function", storage |-> "extern", body |-> FALSE,
    ret |-> <<"zx_status_t">>, name |-> <<"zx_", "pci_query_irq_mode">>,
    voidList |-> FALSE,
    params |-> <<
        [tags |-> <<"handle_use">>, type |-> <<"zx_handle_t">>, name |-> "handle"],
        [tags |-> <<>>, type |-> <<"uint32_t">>, name |-> "mode"],
        [tags |-> <<>>, type |-> <<"uint32_t", "*">>, name |-> "out_max_irqs"] >>,
    attrs |-> <<[attr |-> "__NONNULL", args |-> <<3>>], [attr |-> "__LEAF_FN", args |-> <<>>]>> ],
  [ line |-> 1508, kind |-> "function", storage |-> "extern", body |-> FALSE,
    ret |-> <<"zx_status_t">>, name |-> <<"_", "zx_", "pci_query_irq_mode">>,
    voidList |-> FALSE,
    params |-> <<
        [tags |-> <<"handle_use">>, type |-> <<"zx_handle_t">>, name |-> "handle"],
        [tags |-> <<>>, type |-> <<"uint32_t">>, name |-> "mode"],
        [tags |-> <<>>, type |-> <<"uint32_t", "*">>, name |-> "out_max_irqs"] >>,
    attrs |-> <<[attr |-> "__NONNULL", args |-> <<3>>], [attr |-> "__LEAF_FN", args |-> <<>>]>> ],
  [ line |-> 1513, kind |-> "function", storage |-> "extern", body |-> FALSE,
    ret |-> <<"zx_status_t">>, name |-> <<"zx_", "pci_set_irq_mode">>,
    voidList |-> FALSE,
    params |-> <<
        [tags |-> <<"handle_use">>, type |-> <<"zx_handle_t">>, name |-> "handle"],
        [tags |-> <<>>, type |-> <<"uint32_t">>, name |-> "mode"],
        [tags |-> <<>>, type |-> <<"uint32_t">>, name |-> "requested_irq_count"] >>,
    attrs |-> <<[attr |-> "__LEAF_FN", args |-> <<>>]>> ],
  [ line |-> 1518, kind |-> "function", storage |-> "extern", body |-> FALSE,
    ret |-> <<"zx_status_t">>, name |-> <<"_", "zx_", "pci_set_irq_mode">>,
    voidList |-> FALSE,
    params |-> <<
        [tags |-> <<"handle_use">>, type |-> <<"zx_handle_t">>, name |-> "handle"],
        [tags |-> <<>>, type |-> <<"uint32_t">>, name |-> "mode"],
        [tags |-> <<>>, type |-> <<"uint32_t">>, name |-> "requested_irq_count"] >>,
    attrs |-> <<[attr |-> "__LEAF_FN", args |-> <<>>]>> ],
  [ line |-> 1523, kind |-> "function", storage |-> "extern", body |-> FALSE,
    ret |-> <<"zx_status_t">>, name |-> <<"zx_", "pci_init">>,
    voidList |-> FALSE,
    params |-> <<
        [tags |-> <<"handle_use">>, type |-> <<"zx_handle_t">>, name |-> "handle"],
        [tags |-> <<>>, type |-> <<"const", "zx_pci_init_arg_t", "*">>, name |-> "init_buf"],
        [tags |-> <<>>, type |-> <<"uint32_t">>, name |-> "len"] >>,
    attrs |-> <<[attr |-> "__LEAF_FN", args |-> <<>>]>> ],
  [ line |-> 1528, kind |-> "function", storage |-> "extern", body |-> FALSE,
    ret |-> <<"zx_status_t">>, name |-> <<"_", "zx_", "pci_init">>,
    voidList |-> FALSE,
    params |-> <<
        [tags |-> <<"handle_use">>, type |-> <<"zx_handle_t">>, name |-> "handle"],
        [tags |-> <<>>, type |-> <<"const", "zx_pci_init_arg_t", "*">>, name |-> "init_buf"],
        [tags |-> <<>>, type |-> <<"uint32_t">>, name |-> "len"] >>,
    attrs |-> <<[attr |-> "__LEAF_FN", args |-> <<>>]>> ],
  [ line |-> 1533, kind |-> "function", storage |-> "extern", body |-> FALSE,
    ret |-> <<"zx_status_t">>, name |-> <<"zx_", "pci_add_subtract_io_range">>,
    voidList |-> FALSE,
    params |-> <<
        [tags |-> <<"handle_use">>, type |-> <<"zx_handle_t">>, name |-> "handle"],
        [tags |-> <<>>, type |-> <<"bool">>, name |-> "mmio"],
        [tags |-> <<>>, type |-> <<"uint64_t">>, name |-> "base"],
        [tags |-> <<>>, type |-> <<"uint64_t">>, name |-> "len"],
        [tags |-> <<>>, type |-> <<"bool">>, name |-> "add"] >>,
    attrs |-> <<[attr |-> "__LEAF_FN", args |-> <<>>]>> ],
  [ line |-> 1540, kind |-> "function", storage |-> "extern", body |-> FALSE,
    ret |-> <<"zx_status_t">>, name |-> <<"_", "zx_", "pci_add_subtract_io_range">>,
    voidList |-> FALSE,
    params |-> <<
        [tags |-> <<"handle_use">>, type |-> <<"zx_handle_t">>, name |-> "handle"],
        [tags |-> <<>>, type |-> <<"bool">>, name |-> "mmio"],
        [tags |-> <<>>, type |-> <<"uint64_t">>, name |-> "base"],
        [tags |-> <<>>, type |-> <<"uint64_t">>, name |-> "len"],
        [tags |-> <<>>, type |-> <<"bool">>, name |-> "add"] >>,
    attrs |-> <<[attr |-> "__LEAF_FN", args |-> <<>>]>> ]
  >>

\* definitions.h lines 1547-1555: zx_pc_firmware_tables, each followed by its _zx_ variant.
Decls_pc ==
  <<
  [ line |-> 1547, kind |-> "function", storage |-> "extern", body |-> FALSE,
    ret |-> <<"zx_status_t">>, name |-> <<"zx_", "pc_firmware_tables">>,
    voidList |-> FALSE,
    params |-> <<
        [tags |-> <<"handle_use">>, type |-> <<"zx_handle_t">>, name |-> "handle"],
        [tags |-> <<>>, type |-> <<"zx_paddr_t", "*">>, name |-> "acpi_rsdp"],
        [tags |-> <<>>, type |-> <<"zx_paddr_t", "*">>, name |-> "smbios"] >>,
    attrs |-> <<[attr |-> "__NONNULL", args |-> <<2, 3>>], [attr |-> "__LEAF_FN", args |-> <<>>]>> ],
  [ line |-> 1552, kind |-> "function", storage |-> "extern", body |-> FALSE,
    ret |-> <<"zx_status_t">>, name |-> <<"_", "zx_", "pc_firmware_tables">>,
    voidList |-> FALSE,
    params |-> <<
        [tags |-> <<"handle_use">>, type |-> <<"zx_handle_t">>, name |-> "handle"],
        [tags |-> <<>>, type |-> <<"zx_paddr_t", "*">>, name |-> "acpi_rsdp"],
        [tags |-> <<>>, type |-> <<"zx_paddr_t", "*">>, name |-> "smbios"] >>,
    attrs |-> <<[attr |-> "__NONNULL", args |-> <<2, 3>>], [attr |-> "__LEAF_FN", args |-> <<>>]>> ]
  >>

\* definitions.h lines 1557-1565: zx_smc_call, each followed by its _zx_ variant.
Decls_smc ==
  <<
  [ line |-> 1557, kind |-> "function", storage |-> "extern", body |-> FALSE,
    ret |-> <<"zx_status_t">>, name |-> <<"zx_", "smc_call">>,
    voidList |-> FALSE,
    params |-> <<
        [tags |-> <<"handle_use">>, type |-> <<"zx_handle_t">>, name |-> "handle"],
        [tags |-> <<>>, type |-> <<"const", "zx_smc_parameters_t", "*">>, name |-> "parameters"],
        [tags |-> <<>>, type |-> <<"zx_smc_result_t", "*">>, name |-> "out_smc_result"] >>,
    attrs |-> <<[attr |-> "__NONNULL", args |-> <<3>>], [attr |-> "__LEAF_FN", args |-> <<>>]>> ],
  [ line |-> 1562, kind |-> "function", storage |-> "extern", body |-> FALSE,
    ret |-> <<"zx_status_t">>, name |-> <<"_", "zx_", "smc_call">>,
    voidList |-> FALSE,
    params |-> <<
        [tags |-> <<"handle_use">>, type |-> <<"zx_handle_t">>, name |-> "handle"],
        [tags |-> <<>>, type |-> <<"const", "zx_smc_parameters_t", "*">>, name |-> "parameters"],
        [tags |-> <<>>, type |-> <<"zx_smc_result_t", "*">>, name |-> "out_smc_result"] >>,
    attrs |-> <<[attr |-> "__NONNULL", args |-> <<3>>], [attr |-> "__LEAF_FN", args |-> <<>>]>> ]
  >>

\* definitions.h lines 1567-1583: zx_resource_create, each followed by its _zx_ variant.
Decls_resource ==
  <<
  [ line |-> 1567, kind |-> "function", storage |-> "extern", body |-> FALSE,
    ret |-> <<"zx_status_t">>, name |-> <<"zx_", "resource_create">>,
    voidList |-> FALSE,
    params |-> <<
        [tags |-> <<"handle_use">>, type |-> <<"zx_handle_t">>, name |-> "parent_rsrc"],
        [tags |-> <<>>, type |-> <<"uint32_t">>, name |-> "options"],
        [tags |-> <<>>, type |-> <<"uint64_t">>, name |-> "base"],
        [tags |-> <<>>, type |-> <<"size_t">>, name |-> "size"],
        [tags |-> <<>>, type |-> <<"const", "char", "*">>, name |-> "name"],
        [tags |-> <<>>, type |-> <<"size_t">>, name |-> "name_size"],
        [tags |-> <<"handle_acquire">>, type |-> <<"zx_handle_t", "*">>, name |-> "resource_out"] >>,
    attrs |-> <<[attr |-> "__NONNULL", args |-> <<7>>], [attr |-> "__LEAF_FN", args |-> <<>>]>> ],
  [ line |-> 1576, kind |-> "function", storage |-> "extern", body |-> FALSE,
    ret |-> <<"zx_status_t">>, name |-> <<"_", "zx_", "resource_create">>,
    voidList |-> FALSE,
    params |-> <<
        [tags |-> <<"handle_use">>, type |-> <<"zx_handle_t">>, name |-> "parent_rsrc"],
        [tags |-> <<>>, type |-> <<"uint32_t">>, name |-> "options"],
        [tags |-> <<>>, type |-> <<"uint64_t">>, name |-> "base"],
        [tags |-> <<>>, type |-> <<"size_t">>, name |-> "size"],
        [tags |-> <<>>, type |-> <<"const", "char", "*">>, name |-> "name"],
        [tags |-> <<>>, type |-> <<"size_t">>, name |-> "name_size"],
        [tags |-> <<"handle_acquire">>, type |-> <<"zx_handle_t", "*">>, name |-> "resource_out"] >>,
    attrs |-> <<[attr |-> "__NONNULL", args |-> <<7>>], [attr |-> "__LEAF_FN", args |-> <<>>]>> ]
  >>

\* definitions.h lines 1585-1611: zx_guest_create .. zx_guest_set_trap, each followed by its _zx_ variant.
Decls_guest ==
  <<
  [ line |-> 1585, kind |-> "function", storage |-> "extern", body |-> FALSE,
    ret |-> <<"zx_status_t">>, name |-> <<"zx_", "guest_create">>,
    voidList |-> FALSE,
    params |-> <<
        [tags |-> <<"handle_use">>, type |-> <<"zx_handle_t">>, name |-> "resource"],
        [tags |-> <<>>, type |-> <<"uint32_t">>, name |-> "options"],
        [tags |-> <<"handle_acquire">>, type |-> <<"zx_handle_t", "*">>, name |-> "guest_handle"],
        [tags |-> <<"handle_acquire">>, type |-> <<"zx_handle_t", "*">>, name |-> "vmar_handle"] >>,
    attrs |-> <<[attr |-> "__NONNULL", args |-> <<3, 4>>], [attr |-> "__LEAF_FN", args |-> <<>>]>> ],
  [ line |-> 1591, kind |-> "function", storage |-> "extern", body |-> FALSE,
    ret |-> <<"zx_status_t">>, name |-> <<"_", "zx_", "guest_create">>,
    voidList |-> FALSE,
    params |-> <<
        [tags |-> <<"handle_use">>, type |-> <<"zx_handle_t">>, name |-> "resource"],
        [tags |-> <<>>, type |-> <<"uint32_t">>, name |-> "options"],
        [tags |-> <<"handle_acquire">>, type |-> <<"zx_handle_t", "*">>, name |-> "guest_handle"],
        [tags |-> <<"handle_acquire">>, type |-> <<"zx_handle_t", "*">>, name |-> "vmar_handle"] >>,
    attrs |-> <<[attr |-> "__NONNULL", args |-> <<3, 4>>], [attr |-> "__LEAF_FN", args |-> <<>>]>> ],
  [ line |-> 1597, kind |-> "function", storage |-> "extern", body |-> FALSE,
    ret |-> <<"zx_status_t">>, name |-> <<"zx_", "guest_set_trap">>,
    voidList |-> FALSE,
    params |-> <<
        [tags |-> <<"handle_use">>, type |-> <<"zx_handle_t">>, name |-> "handle"],
        [tags |-> <<>>, type |-> <<"uint32_t">>, name |-> "kind"],
        [tags |-> <<>>, type |-> <<"zx_vaddr_t">>, name |-> "addr"],
        [tags |-> <<>>, type |-> <<"size_t">>, name |-> "size"],
        [tags |-> <<"handle_use">>, type |-> <<"zx_handle_t">>, name |-> "port_handle"],
        [tags |-> <<>>, type |-> <<"uint64_t">>, name |-> "key"] >>,
    attrs |-> <<[attr |-> "__LEAF_FN", args |-> <<>>]>> ],
  [ line |-> 1605, kind |-> "function", storage |-> "extern", body |-> FALSE,
    ret |-> <<"zx_status_t">>, name |-> <<"_", "zx_", "guest_set_trap">>,
    voidList |-> FALSE,
    params |-> <<
        [tags |-> <<"handle_use">>, type |-> <<"zx_handle_t">>, name |-> "handle"],
        [tags |-> <<>>, type |-> <<"uint32_t">>, name |-> "kind"],
        [tags |-> <<>>, type |-> <<"zx_vaddr_t">>, name |-> "addr"],
        [tags |-> <<>>, type |-> <<"size_t">>, name |-> "size"],
        [tags |-> <<"handle_use">>, type |-> <<"zx_handle_t">>, name |-> "port_handle"],
        [tags |-> <<>>, type |-> <<"uint64_t">>, name |-> "key"] >>,
    attrs |-> <<[attr |-> "__LEAF_FN", args |-> <<>>]>> ]
  >>

\* definitions.h lines 1613-1663: zx_vcpu_create .. zx_vcpu_write_state, each followed by its _zx_ variant.
Decls_vcpu ==
  <<
  [ line |-> 1613, kind |-> "function", storage |-> "extern", body |-> FALSE,
    ret |-> <<"zx_status_t">>, name |-> <<"zx_", "vcpu_create">>,
    voidList |-> FALSE,
    params |-> <<
        [tags |-> <<"handle_use">>, type |-> <<"zx_handle_t">>, name |-> "guest"],
        [tags |-> <<>>, type |-> <<"uint32_t">>, name |-> "options"],
        [tags |-> <<>>, type |-> <<"zx_vaddr_t">>, name |-> "entry"],
        [tags |-> <<"handle_acquire">>, type |-> <<"zx_handle_t", "*">>, name |-> "out"] >>,
    attrs |-> <<[attr |-> "__NONNULL", args |-> <<4>>], [attr |-> "__LEAF_FN", args |-> <<>>]>> ],
  [ line |-> 1619, kind |-> "function", storage |-> "extern", body |-> FALSE,
    ret |-> <<"zx_status_t">>, name |-> <<"_", "zx_", "vcpu_create">>,
    voidList |-> FALSE,
    params |-> <<
        [tags |-> <<"handle_use">>, type |-> <<"zx_handle_t">>, name |-> "guest"],
        [tags |-> <<>>, type |-> <<"uint32_t">>, name |-> "options"],
        [tags |-> <<>>, type |-> <<"zx_vaddr_t">>, name |-> "entry"],
        [tags |-> <<"handle_acquire">>, type |-> <<"zx_handle_t", "*">>, name |-> "out"] >>,
    attrs |-> <<[attr |-> "__NONNULL", args |-> <<4>>], [attr |-> "__LEAF_FN", args |-> <<>>]>> ],
  [ line |-> 1625, kind |-> "function", storage |-> "extern", body |-> FALSE,
    ret |-> <<"zx_status_t">>, name |-> <<"zx_", "vcpu_resume">>,
    voidList |-> FALSE,
    params |-> <<
        [tags |-> <<"handle_use">>, type |-> <<"zx_handle_t">>, name |-> "handle"],
        [tags |-> <<>>, type |-> <<"zx_port_packet_t", "*">>, name |-> "packet"] >>,
    attrs |-> <<[attr |-> "__NONNULL", args |-> <<2>>], [attr |-> "__LEAF_FN", args |-> <<>>]>> ],
  [ line |-> 1629, kind |-> "function", storage |-> "extern", body |-> FALSE,
    ret |-> <<"zx_status_t">>, name |-> <<"_", "zx_", "vcpu_resume">>,
    voidList |-> FALSE,
    params |-> <<
        [tags |-> <<"handle_use">>, type |-> <<"zx_handle_t">>, name |-> "handle"],
        [tags |-> <<>>, type |-> <<"zx_port_packet_t", "*">>, name |-> "packet"] >>,
    attrs |-> <<[attr |-> "__NONNULL", args |-> <<2>>], [attr |-> "__LEAF_FN", args |-> <<>>]>> ],
  [ line |-> 1633, kind |-> "function", storage |-> "extern", body |-> FALSE,
    ret |-> <<"zx_status_t">>, name |-> <<"zx_", "vcpu_interrupt">>,
    voidList |-> FALSE,
    params |-> <<
        [tags |-> <<"handle_use">>, type |-> <<"zx_handle_t">>, name |-> "handle"],
        [tags |-> <<>>, type |-> <<"uint32_t">>, name |-> "vector"] >>,
    attrs |-> <<[attr |-> "__LEAF_FN", args |-> <<>>]>> ],
  [ line |-> 1637, kind |-> "function", storage |-> "extern", body |-> FALSE,
    ret |-> <<"zx_status_t">>, name |-> <<"_", "zx_", "vcpu_interrupt">>,
    voidList |-> FALSE,
    params |-> <<
        [tags |-> <<"handle_use">>, type |-> <<"zx_handle_t">>, name |-> "handle"],
        [tags |-> <<>>, type |-> <<"uint32_t">>, name |-> "vector"] >>,
    attrs |-> <<[attr |-> "__LEAF_FN", args |-> <<>>]>> ],
  [ line |-> 1641, kind |-> "function", storage |-> "extern", body |-> FALSE,
    ret |-> <<"zx_status_t">>, name |-> <<"zx_", "vcpu_read_state">>,
    voidList |-> FALSE,
    params |-> <<
        [tags |-> <<"handle_use">>, type |-> <<"zx_handle_t">>, name |-> "handle"],
        [tags |-> <<>>, type |-> <<"uint32_t">>, name |-> "kind"],
        [tags |-> <<>>, type |-> <<"void", "*">>, name |-> "buffer"],
        [tags |-> <<>>, type |-> <<"size_t">>, name |-> "buffer_size"] >>,
    attrs |-> <<[attr |-> "__LEAF_FN", args |-> <<>>]>> ],
  [ line |-> 1647, kind |-> "function", storage |-> "extern", body |-> FALSE,
    ret |-> <<"zx_status_t">>, name |-> <<"_", "zx_", "vcpu_read_state">>,
    voidList |-> FALSE,
    params |-> <<
        [tags |-> <<"handle_use">>, type |-> <<"zx_handle_t">>, name |-> "handle"],
        [tags |-> <<>>, type |-> <<"uint32_t">>, name |-> "kind"],
        [tags |-> <<>>, type |-> <<"void", "*">>, name |-> "buffer"],
        [tags |-> <<>>, type |-> <<"size_t">>, name |-> "buffer_size"] >>,
    attrs |-> <<[attr |-> "__LEAF_FN", args |-> <<>>]>> ],
  [ line |-> 1653, kind |-> "function", storage |-> "extern", body |-> FALSE,
    ret |-> <<"zx_status_t">>, name |-> <<"zx_", "vcpu_write_state">>,
    voidList |-> FALSE,
    params |-> <<
        [tags |-> <<"handle_use">>, type |-> <<"zx_handle_t">>, name |-> "handle"],
        [tags |-> <<>>, type |-> <<"uint32_t">>, name |-> "kind"],
        [tags |-> <<>>, type |-> <<"const", "void", "*">>, name |-> "buffer"],
        [tags |-> <<>>, type |-> <<"size_t">>, name |-> "buffer_size"] >>,
    attrs |-> <<[attr |-> "__LEAF_FN", args |-> <<>>]>> ],
  [ line |-> 1659, kind |-> "function", storage |-> "extern", body |-> FALSE,
    ret |-> <<"zx_status_t">>, name |-> <<"_", "zx_", "vcpu_write_state">>,
    voidList |-> FALSE,
    params |-> <<
        [tags |-> <<"handle_use">>, type |-> <<"zx_handle_t">>, name |-> "handle"],
        [tags |-> <<>>, type |-> <<"uint32_t">>, name |-> "kind"],
        [tags |-> <<>>, type |-> <<"const", "void", "*">>, name |-> "buffer"],
        [tags |-> <<>>, type |-> <<"size_t">>, name |-> "buffer_size"] >>,
    attrs |-> <<[attr |-> "__LEAF_FN", args |-> <<>>]>> ]
  >>

\* definitions.h lines 1665-1693: zx_system_mexec .. zx_system_powerctl, each followed by its _zx_ variant.
Decls_system2 ==
  <<
  [ line |-> 1665, kind |-> "function", storage |-> "extern", body |-> FALSE,
    ret |-> <<"zx_status_t">>, name |-> <<"zx_", "system_mexec">>,
    voidList |-> FALSE,
    params |-> <<
        [tags |-> <<"handle_use">>, type |-> <<"zx_handle_t">>, name |-> "resource"],
        [tags |-> <<"handle_use">>, type |-> <<"zx_handle_t">>, name |-> "kernel_vmo"],
        [tags |-> <<"handle_use">>, type |-> <<"zx_handle_t">>, name |-> "bootimage_vmo"] >>,
    attrs |-> <<[attr |-> "__LEAF_FN", args |-> <<>>]>> ],
  [ line |-> 1670, kind |-> "function", storage |-> "extern", body |-> FALSE,
    ret |-> <<"zx_status_t">>, name |-> <<"_", "zx_", "system_mexec">>,
    voidList |-> FALSE,
    params |-> <<
        [tags |-> <<"handle_use">>, type |-> <<"zx_handle_t">>, name |-> "resource"],
        [tags |-> <<"handle_use">>, type |-> <<"zx_handle_t">>, name |-> "kernel_vmo"],
        [tags |-> <<"handle_use">>, type |-> <<"zx_handle_t">>, name |-> "bootimage_vmo"] >>,
    attrs |-> <<[attr |-> "__LEAF_FN", args |-> <<>>]>> ],
  [ line |-> 1675, kind |-> "function", storage |-> "extern", body |-> FALSE,
    ret |-> <<"zx_status_t">>, name |-> <<"zx_", "system_mexec_payload_get">>,
    voidList |-> FALSE,
    params |-> <<
        [tags |-> <<"handle_use">>, type |-> <<"zx_handle_t">>, name |-> "resource"],
        [tags |-> <<>>, type |-> <<"void", "*">>, name |-> "buffer"],
        [tags |-> <<>>, type |-> <<"size_t">>, name |-> "buffer_size"] >>,
    attrs |-> <<[attr |-> "__LEAF_FN", args |-> <<>>]>> ],
  [ line |-> 1680, kind |-> "function", storage |-> "extern", body |-> FALSE,
    ret |-> <<"zx_status_t">>, name |-> <<"_", "zx_", "system_mexec_payload_get">>,
    voidList |-> FALSE,
    params |-> <<
        [tags |-> <<"handle_use">>, type |-> <<"zx_handle_t">>, name |-> "resource"],
        [tags |-> <<>>, type |-> <<"void", "*">>, name |-> "buffer"],
        [tags |-> <<>>, type |-> <<"size_t">>, name |-> "buffer_size"] >>,
    attrs |-> <<[attr |-> "__LEAF_FN", args |-> <<>>]>> ],
  [ line |-> 1685, kind |-> "function", storage |-> "extern", body |-> FALSE,
    ret |-> <<"zx_status_t">>, name |-> <<"zx_", "system_powerctl">>,
    voidList |-> FALSE,
    params |-> <<
        [tags |-> <<"handle_use">>, type |-> <<"zx_handle_t">>, name |-> "resource"],
        [tags |-> <<>>, type |-> <<"uint32_t">>, name |-> "cmd"],
        [tags |-> <<>>, type |-> <<"const", "zx_system_powerctl_arg_t", "*">>, name |-> "arg"] >>,
    attrs |-> <<[attr |-> "__LEAF_FN", args |-> <<>>]>> ],
  [ line |-> 1690, kind |-> "function", storage |-> "extern", body |-> FALSE,
    ret |-> <<"zx_status_t">>, name |-> <<"_", "zx_", "system_powerctl">>,
    voidList |-> FALSE,
    params |-> <<
        [tags |-> <<"handle_use">>, type |-> <<"zx_handle_t">>, name |-> "resource"],
        [tags |-> <<>>, type |-> <<"uint32_t">>, name |-> "cmd"],
        [tags |-> <<>>, type |-> <<"const", "zx_system_powerctl_arg_t", "*">>, name |-> "arg"] >>,
    attrs |-> <<[attr |-> "__LEAF_FN", args |-> <<>>]>> ]
  >>

\* definitions.h lines 1695-1717: zx_pager_create .. zx_pager_create_vmo, each followed by its _zx_ variant.
Decls_pager ==
  <<
  [ line |-> 1695, kind |-> "function", storage |-> "extern", body |-> FALSE,
    ret |-> <<"zx_status_t">>, name |-> <<"zx_", "pager_create">>,
    voidList |-> FALSE,
    params |-> <<
        [tags |-> <<>>, type |-> <<"uint32_t">>, name |-> "options"],
        [tags |-> <<"pager">>, type |-> <<"zx_handle_t", "*">>, name |-> "out_pager"] >>,
    attrs |-> <<[attr |-> "__NONNULL", args |-> <<2>>], [attr |-> "__LEAF_FN", args |-> <<>>]>> ],
  [ line |-> 1699, kind |-> "function", storage |-> "extern", body |-> FALSE,
    ret |-> <<"zx_status_t">>, name |-> <<"_", "zx_", "pager_create">>,
    voidList |-> FALSE,
    params |-> <<
        [tags |-> <<>>, type |-> <<"uint32_t">>, name |-> "options"],
        [tags |-> <<"pager">>, type |-> <<"zx_handle_t", "*">>, name |-> "out_pager"] >>,
    attrs |-> <<[attr |-> "__NONNULL", args |-> <<2>>], [attr |-> "__LEAF_FN", args |-> <<>>]>> ],
  [ line |-> 1703, kind |-> "function", storage |-> "extern", body |-> FALSE,
    ret |-> <<"zx_status_t">>, name |-> <<"zx_", "pager_create_vmo">>,
    voidList |-> FALSE,
    params |-> <<
        [tags |-> <<"handle_use">>, type |-> <<"zx_handle_t">>, name |-> "pager"],
        [tags |-> <<"handle_use">>, type |-> <<"zx_handle_t">>, name |-> "port"],
        [tags |-> <<>>, type |-> <<"uint64_t">>, name |-> "key"],
        [tags |-> <<>>, type |-> <<"uint64_t">>, name |-> "size"],
        [tags |-> <<>>, type |-> <<"uint32_t">>, name |-> "options"],
        [tags |-> <<"out_pager_vmo">>, type |-> <<"zx_handle_t", "*">>, name |-> "out_pager_vmo"] >>,
    attrs |-> <<[attr |-> "__NONNULL", args |-> <<6>>], [attr |-> "__LEAF_FN", args |-> <<>>]>> ],
  [ line |-> 1711, kind |-> "function", storage |-> "extern", body |-> FALSE,
    ret |-> <<"zx_status_t">>, name |-> <<"_", "zx_", "pager_create_vmo">>,
    voidList |-> FALSE,
    params |-> <<
        [tags |-> <<"handle_use">>, type |-> <<"zx_handle_t">>, name |-> "pager"],
        [tags |-> <<"handle_use">>, type |-> <<"zx_handle_t">>, name |-> "port"],
        [tags |-> <<>>, type |-> <<"uint64_t">>, name |-> "key"],
        [tags |-> <<>>, type |-> <<"uint64_t">>, name |-> "size"],
        [tags |-> <<>>, type |-> <<"uint32_t">>, name |-> "options"],
        [tags |-> <<"out_pager_vmo">>, type |-> <<"zx_handle_t", "*">>, name |-> "out_pager_vmo"] >>,
    attrs |-> <<[attr |-> "__NONNULL", args |-> <<6>>], [attr |-> "__LEAF_FN", args |-> <<>>]>> ]
  >>

\* definitions.h lines 1719-1837: zx_syscall_test_0 .. zx_syscall_test_wrapper, each followed by its _zx_ variant.
Decls_syscall ==
  <<
  [ line |-> 1719, kind |-> "function", storage |-> "extern", body |-> FALSE,
    ret |-> <<"zx_status_t">>, name |-> <<"zx_", "syscall_test_0">>,
    voidList |-> TRUE,
    params |-> <<>>,
    attrs |-> <<[attr |-> "__LEAF_FN", args |-> <<>>]>> ],
  [ line |-> 1722, kind |-> "function", storage |-> "extern", body |-> FALSE,
    ret |-> <<"zx_status_t">>, name |-> <<"_", "zx_", "syscall_test_0">>,
    voidList |-> TRUE,
    params |-> <<>>,
    attrs |-> <<[attr |-> "__LEAF_FN", args |-> <<>>]>> ],
  [ line |-> 1725, kind |-> "function", storage |-> "extern", body |-> FALSE,
    ret |-> <<"zx_status_t">>, name |-> <<"zx_", "syscall_test_1">>,
    voidList |-> FALSE,
    params |-> <<
        [tags |-> <<>>, type |-> <<"int">>, name |-> "a"] >>,
    attrs |-> <<[attr |-> "__LEAF_FN", args |-> <<>>]>> ],
  [ line |-> 1728, kind |-> "function", storage |-> "extern", body |-> FALSE,
    ret |-> <<"zx_status_t">>, name |-> <<"_", "zx_", "syscall_test_1">>,
    voidList |-> FALSE,
    params |-> <<
        [tags |-> <<>>, type |-> <<"int">>, name |-> "a"] >>,
    attrs |-> <<[attr |-> "__LEAF_FN", args |-> <<>>]>> ],
  [ line |-> 1731, kind |-> "function", storage |-> "extern", body |-> FALSE,
    ret |-> <<"zx_status_t">>, name |-> <<"zx_", "syscall_test_2">>,
    voidList |-> FALSE,
    params |-> <<
        [tags |-> <<>>, type |-> <<"int">>, name |-> "a"],
        [tags |-> <<>>, type |-> <<"int">>, name |-> "b"] >>,
    attrs |-> <<[attr |-> "__LEAF_FN", args |-> <<>>]>> ],
  [ line |-> 1735, kind |-> "function", storage |-> "extern", body |-> FALSE,
    ret |-> <<"zx_status_t">>, name |-> <<"_", "zx_", "syscall_test_2">>,
    voidList |-> FALSE,
    params |-> <<
        [tags |-> <<>>, type |-> <<"int">>, name |-> "a"],
        [tags |-> <<>>, type |-> <<"int">>, name |-> "b"] >>,
    attrs |-> <<[attr |-> "__LEAF_FN", args |-> <<>>]>> ],
  [ line |-> 1739, kind |-> "function", storage |-> "extern", body |-> FALSE,
    ret |-> <<"zx_status_t">>, name |-> <<"zx_", "syscall_test_3">>,
    voidList |-> FALSE,
    params |-> <<
        [tags |-> <<>>, type |-> <<"int">>, name |-> "a"],
        [tags |-> <<>>, type |-> <<"int">>, name |-> "b"],
        [tags |-> <<>>, type |-> <<"int">>, name |-> "c"] >>,
    attrs |-> <<[attr |-> "__LEAF_FN", args |-> <<>>]>> ],
  [ line |-> 1744, kind |-> "function", storage |-> "extern", body |-> FALSE,
    ret |-> <<"zx_status_t">>, name |-> <<"_", "zx_", "syscall_test_3">>,
    voidList |-> FALSE,
    params |-> <<
        [tags |-> <<>>, type |-> <<"int">>, name |-> "a"],
        [tags |-> <<>>, type |-> <<"int">>, name |-> "b"],
        [tags |-> <<>>, type |-> <<"int">>, name |-> "c"] >>,
    attrs |-> <<[attr |-> "__LEAF_FN", args |-> <<>>]>> ],
  [ line |-> 1749, kind |-> "function", storage |-> "extern", body |-> FALSE,
    ret |-> <<"zx_status_t">>, name |-> <<"zx_", "syscall_test_4">>,
    voidList |-> FALSE,
    params |-> <<
        [tags |-> <<>>, type |-> <<"int">>, name |-> "a"],
        [tags |-> <<>>, type |-> <<"int">>, name |-> "b"],
        [tags |-> <<>>, type |-> <<"int">>, name |-> "c"],
        [tags |-> <<>>, type |-> <<"int">>, name |-> "d"] >>,
    attrs |-> <<[attr |-> "__LEAF_FN", args |-> <<>>]>> ],
  [ line |-> 1755, kind |-> "function", storage |-> "extern", body |-> FALSE,
    ret |-> <<"zx_status_t">>, name |-> <<"_", "zx_", "syscall_test_4">>,
    voidList |-> FALSE,
    params |-> <<
        [tags |-> <<>>, type |-> <<"int">>, name |-> "a"],
        [tags |-> <<>>, type |-> <<"int">>, name |-> "b"],
        [tags |-> <<>>, type |-> <<"int">>, name |-> "c"],
        [tags |-> <<>>, type |-> <<"int">>, name |-> "d"] >>,
    attrs |-> <<[attr |-> "__LEAF_FN", args |-> <<>>]>> ],
  [ line |-> 1761, kind |-> "function", storage |-> "extern", body |-> FALSE,
    ret |-> <<"zx_status_t">>, name |-> <<"zx_", "syscall_test_5">>,
    voidList |-> FALSE,
    params |-> <<
        [tags |-> <<>>, type |-> <<"int">>, name |-> "a"],
        [tags |-> <<>>, type |-> <<"int">>, name |-> "b"],
        [tags |-> <<>>, type |-> <<"int">>, name |-> "c"],
        [tags |-> <<>>, type |-> <<"int">>, name |-> "d"],
        [tags |-> <<>>, type |-> <<"int">>, name |-> "e"] >>,
    attrs |-> <<[attr |-> "__LEAF_FN", args |-> <<>>]>> ],
  [ line |-> 1768, kind |-> "function", storage |-> "extern", body |-> FALSE,
    ret |-> <<"zx_status_t">>, name |-> <<"_", "zx_", "syscall_test_5">>,
    voidList |-> FALSE,
    params |-> <<
        [tags |-> <<>>, type |-> <<"int">>, name |-> "a"],
        [tags |-> <<>>, type |-> <<"int">>, name |-> "b"],
        [tags |-> <<>>, type |-> <<"int">>, name |-> "c"],
        [tags |-> <<>>, type |-> <<"int">>, name |-> "d"],
        [tags |-> <<>>, type |-> <<"int">>, name |-> "e"] >>,
    attrs |-> <<[attr |-> "__LEAF_FN", args |-> <<>>]>> ],
  [ line |-> 1775, kind |-> "function", storage |-> "extern", body |-> FALSE,
    ret |-> <<"zx_status_t">>, name |-> <<"zx_", "syscall_test_6">>,
    voidList |-> FALSE,
    params |-> <<
        [tags |-> <<>>, type |-> <<"int">>, name |-> "a"],
        [tags |-> <<>>, type |-> <<"int">>, name |-> "b"],
        [tags |-> <<>>, type |-> <<"int">>, name |-> "c"],
        [tags |-> <<>>, type |-> <<"int">>, name |-> "d"],
        [tags |-> <<>>, type |-> <<"int">>, name |-> "e"],
        [tags |-> <<>>, type |-> <<"int">>, name |-> "f"] >>,
    attrs |-> <<[attr |-> "__LEAF_FN", args |-> <<>>]>> ],
  [ line |-> 1783, kind |-> "function", storage |-> "extern", body |-> FALSE,
    ret |-> <<"zx_status_t">>, name |-> <<"_", "zx_", "syscall_test_6">>,
    voidList |-> FALSE,
    params |-> <<
        [tags |-> <<>>, type |-> <<"int">>, name |-> "a"],
        [tags |-> <<>>, type |-> <<"int">>, name |-> "b"],
        [tags |-> <<>>, type |-> <<"int">>, name |-> "c"],
        [tags |-> <<>>, type |-> <<"int">>, name |-> "d"],
        [tags |-> <<>>, type |-> <<"int">>, name |-> "e"],
        [tags |-> <<>>, type |-> <<"int">>, name |-> "f"] >>,
    attrs |-> <<[attr |-> "__LEAF_FN", args |-> <<>>]>> ],
  [ line |-> 1791, kind |-> "function", storage |-> "extern", body |-> FALSE,
    ret |-> <<"zx_status_t">>, name |-> <<"zx_", "syscall_test_7">>,
    voidList |-> FALSE,
    params |-> <<
        [tags |-> <<>>, type |-> <<"int">>, name |-> "a"],
        [tags |-> <<>>, type |-> <<"int">>, name |-> "b"],
        [tags |-> <<>>, type |-> <<"int">>, name |-> "c"],
        [tags |-> <<>>, type |-> <<"int">>, name |-> "d"],
        [tags |-> <<>>, type |-> <<"int">>, name |-> "e"],
        [tags |-> <<>>, type |-> <<"int">>, name |-> "f"],
        [tags |-> <<>>, type |-> <<"int">>, name |-> "g"] >>,
    attrs |-> <<[attr |-> "__LEAF_FN", args |-> <<>>]>> ],
  [ line |-> 1800, kind |-> "function", storage |-> "extern", body |-> FALSE,
    ret |-> <<"zx_status_t">>, name |-> <<"_", "zx_", "syscall_test_7">>,
    voidList |-> FALSE,
    params |-> <<
        [tags |-> <<>>, type |-> <<"int">>, name |-> "a"],
        [tags |-> <<>>, type |-> <<"int">>, name |-> "b"],
        [tags |-> <<>>, type |-> <<"int">>, name |-> "c"],
        [tags |-> <<>>, type |-> <<"int">>, name |-> "d"],
        [tags |-> <<>>, type |-> <<"int">>, name |-> "e"],
        [tags |-> <<>>, type |-> <<"int">>, name |-> "f"],
        [tags |-> <<>>, type |-> <<"int">>, name |-> "g"] >>,
    attrs |-> <<[attr |-> "__LEAF_FN", args |-> <<>>]>> ],
  [ line |-> 1809, kind |-> "function", storage |-> "extern", body |-> FALSE,
    ret |-> <<"zx_status_t">>, name |-> <<"zx_", "syscall_test_8">>,
    voidList |-> FALSE,
    params |-> <<
        [tags |-> <<>>, type |-> <<"int">>, name |-> "a"],
        [tags |-> <<>>, type |-> <<"int">>, name |-> "b"],
        [tags |-> <<>>, type |-> <<"int">>, name |-> "c"],
        [tags |-> <<>>, type |-> <<"int">>, name |-> "d"],
        [tags |-> <<>>, type |-> <<"int">>, name |-> "e"],
        [tags |-> <<>>, type |-> <<"int">>, name |-> "f"],
        [tags |-> <<>>, type |-> <<"int">>, name |-> "g"],
        [tags |-> <<>>, type |-> <<"int">>, name |-> "h"] >>,
    attrs |-> <<[attr |-> "__LEAF_FN", args |-> <<>>]>> ],
  [ line |-> 1819, kind |-> "function", storage |-> "extern", body |-> FALSE,
    ret |-> <<"zx_status_t">>, name |-> <<"_", "zx_", "syscall_test_8">>,
    voidList |-> FALSE,
    params |-> <<
        [tags |-> <<>>, type |-> <<"int">>, name |-> "a"],
        [tags |-> <<>>, type |-> <<"int">>, name |-> "b"],
        [tags |-> <<>>, type |-> <<"int">>, name |-> "c"],
        [tags |-> <<>>, type |-> <<"int">>, name |-> "d"],
        [tags |-> <<>>, type |-> <<"int">>, name |-> "e"],
        [tags |-> <<>>, type |-> <<"int">>, name |-> "f"],
        [tags |-> <<>>, type |-> <<"int">>, name |-> "g"],
        [tags |-> <<>>, type |-> <<"int">>, name |-> "h"] >>,
    attrs |-> <<[attr |-> "__LEAF_FN", args |-> <<>>]>> ],
  [ line |-> 1829, kind |-> "function", storage |-> "extern", body |-> FALSE,
    ret |-> <<"zx_status_t">>, name |-> <<"zx_", "syscall_test_wrapper">>,
    voidList |-> FALSE,
    params |-> <<
        [tags |-> <<>>, type |-> <<"int">>, name |-> "a"],
        [tags |-> <<>>, type |-> <<"int">>, name |-> "b"],
        [tags |-> <<>>, type |-> <<"int">>, name |-> "c"] >>,
    attrs |-> <<[attr |-> "__LEAF_FN", args |-> <<>>]>> ],
  [ line |-> 1834, kind |-> "function", storage |-> "extern", body |-> FALSE,
    ret |-> <<"zx_status_t">>, name |-> <<"_", "zx_", "syscall_test_wrapper">>,
    voidList |-> FALSE,
    params |-> <<
        [tags |-> <<>>, type |-> <<"int">>, name |-> "a"],
        [tags |-> <<>>, type |-> <<"int">>, name |-> "b"],
        [tags |-> <<>>, type |-> <<"int">>, name |-> "c"] >>,
    attrs |-> <<[attr |-> "__LEAF_FN", args |-> <<>>]>> ]
  >>

\* The declarations of definitions.h in file order.
Decls ==
  Decls_clock \o Decls_nanosleep \o Decls_ticks \o Decls_deadline
  \o Decls_clock2 \o Decls_system \o Decls_cache \o Decls_handle
  \o Decls_handle_replace \o Decls_object \o Decls_channel \o Decls_socket
  \o Decls_thread \o Decls_process \o Decls_job \o Decls_task
  \o Decls_task_kill \o Decls_event \o Decls_eventpair \o Decls_futex
  \o Decls_port \o Decls_timer \o Decls_vmo \o Decls_vmar
  \o Decls_cprng \o Decls_fifo \o Decls_profile \o Decls_vmar2
  \o Decls_futex2 \o Decls_log \o Decls_debuglog \o Decls_ktrace
  \o Decls_mtrace \o Decls_debug \o Decls_interrupt \o Decls_ioports
  \o Decls_vmo2 \o Decls_iommu \o Decls_bti \o Decls_pmt
  \o Decls_framebuffer \o Decls_pci \o Decls_pc \o Decls_smc
  \o Decls_resource \o Decls_guest \o Decls_vcpu \o Decls_system2
  \o Decls_pager \o Decls_syscall

NumDecls == Len(Decls)

\* Handle values the caller can hold: 1 .. MaxHandles.
MaxHandles == 3

Handles == 1 .. MaxHandles

VARIABLES
  pos,      \* number of declarations of the header seen so far
  owned,    \* the handles the caller owns
  last,     \* the call that has just returned, until the caller goes on
  pc        \* "running", or "exited" after a call that does not return

vars == <<pos, owned, last, pc>>

---------------------------------------------------------------------------
\* Reading a prototype.

\* zx_X, the public entry point.
IsPublic(d) == Len(d.name) = 2 /\ d.name[1] = "zx_"

\* _zx_X, the private-prefixed entry point.
IsPrivate(d) == Len(d.name) = 3 /\ d.name[1] = "_" /\ d.name[2] = "zx_"

\* The name with an underscore put in front of it.
PrivateName(n) == <<"_">> \o n

\* X, the name without its zx_ or _zx_ prefix.
Stem(d) == d.name[Len(d.name)]

\* Return type and parameter list: everything between `extern` and the
\* closing parenthesis, except the name.
Signature(d) == [ret |-> d.ret, voidList |-> d.voidList, params |-> d.params]

HasAttr(d, a) == \E k \in 1 .. Len(d.attrs) : d.attrs[k].attr = a

\* The parameter positions listed in __NONNULL((...)); empty without one.
NonNull(d) ==
  UNION { { d.attrs[k].args[j] : j \in 1 .. Len(d.attrs[k].args) } :
          k \in { k \in 1 .. Len(d.attrs) : d.attrs[k].attr = "__NONNULL" } }

\* The attributes after the parameter list other than __NONNULL, in order.
IsFnAttr(a) == a.attr # "__NONNULL"

FnAttrs(d) == SelectSeq(d.attrs, IsFnAttr)

\* The ZX_SYSCALL_PARAM_ATTR tags of a parameter.
TagsOf(p) == { p.tags[k] : k \in 1 .. Len(p.tags) }

\* The positions of the parameters tagged t.
Tagged(d, t) == { i \in 1 .. Len(d.params) : t \in TagsOf(d.params[i]) }

\* The positions of the parameters of type zx_handle_t, passed by value.
HandleParams(d) == { i \in 1 .. Len(d.params) : d.params[i].type = <<"zx_handle_t">> }

\* The positions of the parameters whose type mentions zx_handle_t at all.
HandleTyped(d) ==
  { i \in 1 .. Len(d.params) :
      \E k \in 1 .. Len(d.params[i].type) : d.params[i].type[k] = "zx_handle_t" }

\* Whether a parameter has a pointer type: its type ends in *.
IsPointer(p) == p.type[Len(p.type)] = "*"

ReturnsStatus(d) == d.ret = <<"zx_status_t">>

---------------------------------------------------------------------------
\* What the ownership tags say a call does.

\* release-always: closed whatever the outcome; release: closed on success.
Released(d, args, ok) ==
  { args[i] : i \in Tagged(d, "handle_release_always") \cap HandleParams(d) }
    \cup (IF ok THEN { args[i] : i \in Tagged(d, "handle_release") \cap HandleParams(d) }
                ELSE {})

\* acquire: one handle produced per tagged output, on success only.
NumAcquired(d, ok) == IF ok THEN Cardinality(Tagged(d, "handle_acquire")) ELSE 0

\* A prototype that returns zx_status_t can report failure; any other call
\* has no way to.
Outcomes(d) == IF ReturnsStatus(d) THEN BOOLEAN ELSE {TRUE}

NoCall == [decl |-> 0, args |-> <<>>, ok |-> TRUE, pre |-> {}, fresh |-> {}]

---------------------------------------------------------------------------

Init ==
  /\ pos = 0
  /\ owned = {}
  /\ last = NoCall
  /\ pc = "running"

\* The next declaration of the header comes into scope.
Declare ==
  /\ pos < NumDecls
  /\ pos' = pos + 1
  /\ UNCHANGED <<owned, last, pc>>

\* The caller can make a call once the whole header is in scope, while it is
\* running and not looking at the result of an earlier call.
CanCall == pos = NumDecls /\ pc = "running" /\ last = NoCall

\* The caller calls the i-th declaration.  It passes handles it owns in the
\* by-value handle parameters (the same handle may be passed twice); the
\* call succeeds or fails; handles produced are ones the caller did not hold.
Call(i, args, ok, fresh) ==
  /\ ok \in Outcomes(Decls[i])
  /\ Cardinality(fresh) = NumAcquired(Decls[i], ok)
  /\ owned' = (owned \ Released(Decls[i], args, ok)) \cup fresh
  /\ last' = [decl |-> i, args |-> args, ok |-> ok, pre |-> owned, fresh |-> fresh]
  /\ pc' = IF HasAttr(Decls[i], "__NO_RETURN") THEN "exited" ELSE "running"
  /\ UNCHANGED pos

\* The caller has looked at the result of the call and goes on.
Continue ==
  /\ pc = "running"
  /\ last # NoCall
  /\ last' = NoCall
  /\ UNCHANGED <<pos, owned, pc>>

\* Some call of some declaration, with some handles and some outcome.
Syscall ==
  /\ CanCall
  /\ \E i \in 1 .. NumDecls :
       \E args \in [HandleParams(Decls[i]) -> owned] :
         \E ok \in BOOLEAN :
           \E fresh \in SUBSET (Handles \ owned) :
             Call(i, args, ok, fresh)

Next ==
  \/ Declare
  \/ Syscall
  \/ Continue

Spec == Init /\ [][Next]_vars

\* The header on its own: the declarations come into scope and nothing is
\* called.
SpecHeader == Init /\ [][Declare]_vars

---------------------------------------------------------------------------
\* Properties of the declarations (checked under SpecHeader).

\* The declarations in scope that are named n.
Named(n) == { j \in 1 .. pos : Decls[j].name = n }

\* C1: once the whole header is in scope, every public zx_X has a
\* declaration _zx_X with the same return type and the same parameter list
\* (number, order, types, names and ZX_SYSCALL_PARAM_ATTR tags).
C1_PrivateVariantSameSignature ==
  pos = NumDecls =>
    \A i \in 1 .. pos :
      IsPublic(Decls[i]) =>
        \E j \in Named(PrivateName(Decls[i].name)) :
          /\ IsPrivate(Decls[j])
          /\ Signature(Decls[j]) = Signature(Decls[i])

\* The whole header is in scope; it holds a pair with tagged parameters
\* and a pair declared (void).
C1_Witness ==
  /\ pos = NumDecls
  /\ \E i \in 1 .. pos :
       /\ IsPublic(Decls[i])
       /\ Tagged(Decls[i], "handle_acquire") # {}
       /\ Named(PrivateName(Decls[i].name)) # {}
  /\ \E i \in 1 .. pos : IsPublic(Decls[i]) /\ Decls[i].voidList

\* C2: for every pair (zx_X, _zx_X) the positions listed in __NONNULL are
\* the same in both (a pair may have no __NONNULL at all, and then neither
\* has), and the other attributes after the parameter list are the same.
C2_PairSameNonnullAndAttrs ==
  pos = NumDecls =>
    \A i \in 1 .. pos :
      IsPublic(Decls[i]) =>
        \A j \in Named(PrivateName(Decls[i].name)) :
          /\ HasAttr(Decls[j], "__NONNULL") = HasAttr(Decls[i], "__NONNULL")
          /\ NonNull(Decls[j]) = NonNull(Decls[i])
          /\ FnAttrs(Decls[j]) = FnAttrs(Decls[i])

\* The whole header is in scope, with a pair that lists two positions in
\* __NONNULL, a pair without __NONNULL and a pair with __NO_RETURN.
C2_Witness ==
  /\ pos = NumDecls
  /\ \E i \in 1 .. pos, j \in 1 .. pos :
       /\ Decls[j].name = PrivateName(Decls[i].name)
       /\ Cardinality(NonNull(Decls[i])) = 2
       /\ NonNull(Decls[j]) = NonNull(Decls[i])
  /\ \E i \in 1 .. pos, j \in 1 .. pos :
       /\ Decls[j].name = PrivateName(Decls[i].name)
       /\ ~HasAttr(Decls[i], "__NONNULL") /\ ~HasAttr(Decls[j], "__NONNULL")
       /\ HasAttr(Decls[i], "__NO_RETURN") /\ HasAttr(Decls[j], "__NO_RETURN")

\* C3 as stated: every declaration in scope that returns void carries
\* __NO_RETURN.
C3_VoidImpliesNoReturn ==
  \A i \in 1 .. pos :
    Decls[i].ret = <<"void">> => HasAttr(Decls[i], "__NO_RETURN")

\* C3, amended: every declaration in scope that returns void carries
\* __NO_RETURN, except zx_cprng_draw and _zx_cprng_draw, which return void
\* and do not carry it.
C3_VoidImpliesNoReturnButCprngDraw ==
  \A i \in 1 .. pos :
    Decls[i].ret = <<"void">> =>
      (HasAttr(Decls[i], "__NO_RETURN") <=> Stem(Decls[i]) # "cprng_draw")

\* A void declaration with __NO_RETURN and the void zx_cprng_draw are both
\* in scope.
C3_Witness ==
  /\ \E i \in 1 .. pos :
       Decls[i].ret = <<"void">> /\ HasAttr(Decls[i], "__NO_RETURN")
  /\ \E i \in 1 .. pos :
       /\ Decls[i].ret = <<"void">> /\ Stem(Decls[i]) = "cprng_draw"
       /\ ~HasAttr(Decls[i], "__NO_RETURN")

\* C4 as stated: every declaration in scope returns zx_status_t, zx_time_t,
\* zx_ticks_t or void.
C4_ReturnTypes ==
  \A i \in 1 .. pos :
    Decls[i].ret \in { <<"zx_status_t">>, <<"zx_time_t">>, <<"zx_ticks_t">>, <<"void">> }

\* C4, amended: every declaration in scope returns zx_status_t, zx_time_t,
\* zx_ticks_t or void, except zx_system_get_dcache_line_size and
\* zx_system_get_num_cpus, which return uint32_t, and zx_system_get_physmem,
\* which returns uint64_t (and their _zx_ variants).
C4_ReturnTypesWithPlainIntegers ==
  \A i \in 1 .. pos :
    \/ Decls[i].ret \in { <<"zx_status_t">>, <<"zx_time_t">>, <<"zx_ticks_t">>, <<"void">> }
    \/ /\ Decls[i].ret = <<"uint32_t">>
       /\ Stem(Decls[i]) \in { "system_get_dcache_line_size", "system_get_num_cpus" }
    \/ /\ Decls[i].ret = <<"uint64_t">>
       /\ Stem(Decls[i]) = "system_get_physmem"

\* Declarations of every one of the six return types are in scope.
C4_Witness ==
  \A t \in { "zx_status_t", "zx_time_t", "zx_ticks_t", "void", "uint32_t", "uint64_t" } :
    \E i \in 1 .. pos : Decls[i].ret = <<t>>

OwnershipTags == { "handle_use", "handle_release_always", "handle_release", "handle_acquire" }

\* C5: every ZX_SYSCALL_PARAM_ATTR tag on a parameter of a declaration in
\* scope is one of the four ownership tags.  (It fails at line 87, where
\* zx_system_get_features tags its features parameter "features", and at
\* lines 1697 and 1708, where zx_pager_create and zx_pager_create_vmo tag
\* their output handles "pager" and "out_pager_vmo": the tag repeats the
\* name of the parameter, and the two handles produced carry no
\* handle_acquire.)
C5_OnlyOwnershipTags ==
  \A i \in 1 .. pos :
    \A k \in 1 .. Len(Decls[i].params) :
      TagsOf(Decls[i].params[k]) \subseteq OwnershipTags

\* C6: every top-level item in scope is a function prototype with the
\* extern storage class and no body, and carries __LEAF_FN.
C6_ExternPrototypesWithLeafFn ==
  \A i \in 1 .. pos :
    /\ Decls[i].kind = "function"
    /\ Decls[i].storage = "extern"
    /\ ~Decls[i].body
    /\ HasAttr(Decls[i], "__LEAF_FN")

\* The whole header is in scope, with prototypes that carry __LEAF_FN next
\* to __CONST and next to __NO_RETURN.
C6_Witness ==
  /\ pos = NumDecls
  /\ \E i \in 1 .. pos : HasAttr(Decls[i], "__LEAF_FN") /\ HasAttr(Decls[i], "__CONST")
  /\ \E i \in 1 .. pos : HasAttr(Decls[i], "__LEAF_FN") /\ HasAttr(Decls[i], "__NO_RETURN")

---------------------------------------------------------------------------
\* Properties of a call (checked under Spec).  They are stated of the call
\* that has just returned: last.pre is what the caller owned before it,
\* owned what it owns after it.

\* The prototype of the call that has just returned.
Called == Decls[last.decl]

\* The handle passed in the parameter called p of the call that has just
\* returned (a set: empty when the prototype has no such by-value handle).
Passed(p) ==
  { last.args[i] : i \in { i \in HandleParams(Called) : Called.params[i].name = p } }

\* The handles passed in the parameters tagged t.
PassedTagged(t) ==
  { last.args[i] : i \in Tagged(Called, t) \cap HandleParams(Called) }

ReleaseAlwaysParams ==
  { <<"handle_close", "handle">>, <<"handle_replace", "handle">>,
    <<"process_start", "arg1">>, <<"vmo_replace_as_executable", "handle">>,
    <<"pmt_unpin", "handle">> }

\* C7: a handle passed in a parameter tagged handle_release_always is not
\* owned by the caller after the call, on success and on failure; the
\* parameters so tagged are handle of zx_handle_close, zx_handle_replace,
\* zx_vmo_replace_as_executable and zx_pmt_unpin and arg1 of
\* zx_process_start.
C7_ReleaseAlwaysGone ==
  last # NoCall =>
    /\ PassedTagged("handle_release_always") \cap owned = {}
    /\ \A i \in Tagged(Called, "handle_release_always") :
         <<Stem(Called), Called.params[i].name>> \in ReleaseAlwaysParams
    /\ \A rp \in ReleaseAlwaysParams :
         Stem(Called) = rp[1] =>
           /\ Passed(rp[2]) # {}
           /\ Passed(rp[2]) \subseteq last.pre
           /\ Passed(rp[2]) \cap owned = {}

\* zx_process_start has failed, and the handle the caller passed as arg1,
\* which it owned, is gone.
C7_Witness ==
  /\ last # NoCall
  /\ Stem(Called) = "process_start" /\ ~last.ok
  /\ Passed("arg1") # {} /\ Passed("arg1") \subseteq last.pre
  /\ Passed("arg1") \cap owned = {}

ReleaseParams ==
  { <<"vmar_unmap_handle_close_thread_exit", "close_handle">>,
    <<"futex_wake_handle_close_thread_exit", "handle">> }

\* C8: a handle passed in a parameter tagged handle_release (close_handle
\* of zx_vmar_unmap_handle_close_thread_exit, handle of
\* zx_futex_wake_handle_close_thread_exit) is gone from the caller's
\* handles exactly when the call succeeded; after a call that failed and
\* returned the caller still owns it.
C8_ReleaseOnlyOnSuccess ==
  last # NoCall =>
    /\ \A h \in PassedTagged("handle_release") : (h \notin owned) <=> last.ok
    /\ \A i \in Tagged(Called, "handle_release") :
         <<Stem(Called), Called.params[i].name>> \in ReleaseParams
    /\ \A rp \in ReleaseParams :
         Stem(Called) = rp[1] =>
           /\ Passed(rp[2]) # {}
           /\ Passed(rp[2]) \subseteq last.pre
           /\ last.ok => Passed(rp[2]) \cap owned = {}
           /\ (~last.ok /\ pc = "running") => Passed(rp[2]) \subseteq owned

\* zx_vmar_unmap_handle_close_thread_exit has failed and returned, and the
\* caller still owns the handle it passed as close_handle.
C8_Witness ==
  /\ last # NoCall
  /\ Stem(Called) = "vmar_unmap_handle_close_thread_exit"
  /\ ~last.ok /\ pc = "running"
  /\ Passed("close_handle") # {} /\ Passed("close_handle") \subseteq owned

\* Whether every parameter of d that has to do with handles is a by-value
\* handle tagged handle_use, and d has no handle_acquire output.
UsesOnly(d) ==
  /\ HandleTyped(d) = HandleParams(d)
  /\ HandleParams(d) \subseteq Tagged(d, "handle_use")
  /\ Tagged(d, "handle_acquire") = {}
  /\ Tagged(d, "handle_release") = {}
  /\ Tagged(d, "handle_release_always") = {}

\* The second half of C9: a call all of whose handle parameters are tagged
\* handle_use, and that has no handle_acquire output, leaves the caller's
\* handles as they were; zx_object_wait_async, zx_object_signal and
\* zx_task_kill are such calls.
UseOnlyCallsChangeNothing ==
  /\ UsesOnly(Called) => owned = last.pre
  /\ Stem(Called) \in { "object_wait_async", "object_signal", "task_kill" } =>
       /\ PassedTagged("handle_use") # {}
       /\ owned = last.pre

\* C9 as stated: a handle passed in a parameter tagged handle_use is still
\* owned by the caller after the call, on success and on failure, and a
\* call whose handle parameters are all handle_use changes nothing.
C9_UseKeepsHandle ==
  last # NoCall =>
    /\ PassedTagged("handle_use") \subseteq owned
    /\ UseOnlyCallsChangeNothing

\* The handles the tags of the other parameters of the call give away:
\* those passed as handle_release_always, and on success those passed as
\* handle_release.
GivenAway ==
  { last.args[j] :
      j \in { j \in HandleParams(Called) :
                \/ "handle_release_always" \in TagsOf(Called.params[j])
                \/ last.ok /\ "handle_release" \in TagsOf(Called.params[j]) } }

\* C9, amended: a handle passed in a parameter tagged handle_use is still
\* owned by the caller after the call, on success and on failure, unless
\* the same handle was also passed, in the same call, in a parameter tagged
\* handle_release_always, or in one tagged handle_release and the call
\* succeeded; and a call whose handle parameters are all handle_use changes
\* nothing.
C9_UseKeepsHandleUnlessAlsoReleased ==
  last # NoCall =>
    /\ PassedTagged("handle_use") \ GivenAway \subseteq owned
    /\ PassedTagged("handle_use") \cap GivenAway \cap owned = {}
    /\ UseOnlyCallsChangeNothing

\* zx_process_start has been passed the same handle as thread and as arg1
\* and another one as handle: the caller has kept the one passed as handle
\* and lost the one passed as thread.
C9_Witness ==
  /\ last # NoCall
  /\ Stem(Called) = "process_start"
  /\ Passed("thread") = Passed("arg1")
  /\ Passed("handle") # Passed("arg1")
  /\ Passed("handle") # {} /\ Passed("handle") \subseteq owned
  /\ Passed("thread") # {} /\ Passed("thread") \cap owned = {}

ReplaceCalls == { "handle_replace", "vmo_replace_as_executable" }

---------------------------------------------------------------------------
\* More properties of the declarations (checked under SpecHeader).

\* C11: every parameter of type zx_handle_t passed by value, of every
\* declaration in scope, carries exactly one ZX_SYSCALL_PARAM_ATTR tag, and
\* it is handle_use, handle_release or handle_release_always.
C11_ByValueHandleHasOneInputTag ==
  \A i \in 1 .. pos :
    \A k \in HandleParams(Decls[i]) :
      /\ Len(Decls[i].params[k].tags) = 1
      /\ Decls[i].params[k].tags[1] \in
           { "handle_use", "handle_release", "handle_release_always" }

\* By-value handles tagged with each of the three input tags are in scope,
\* next to parameters that are not handles and carry no tag.
C11_Witness ==
  /\ \A t \in { "handle_use", "handle_release", "handle_release_always" } :
       \E i \in 1 .. pos : Tagged(Decls[i], t) \cap HandleParams(Decls[i]) # {}
  /\ \E i \in 1 .. pos :
       /\ HandleParams(Decls[i]) # {}
       /\ \E k \in 1 .. Len(Decls[i].params) :
            k \notin HandleParams(Decls[i]) /\ Decls[i].params[k].tags = <<>>

\* C12: in every declaration in scope, a parameter tagged handle_acquire
\* has type zx_handle_t* and its 1-based position is listed in the
\* __NONNULL of the declaration.
C12_AcquireIsNonnullHandlePointer ==
  \A i \in 1 .. pos :
    \A k \in Tagged(Decls[i], "handle_acquire") :
      /\ Decls[i].params[k].type = <<"zx_handle_t", "*">>
      /\ k \in NonNull(Decls[i])

\* A declaration with two handle_acquire outputs, both listed in its
\* __NONNULL, is in scope, and so is one whose __NONNULL lists a
\* handle_acquire output and a parameter that is none.
C12_Witness ==
  /\ \E i \in 1 .. pos :
       /\ Cardinality(Tagged(Decls[i], "handle_acquire")) = 2
       /\ Tagged(Decls[i], "handle_acquire") \subseteq NonNull(Decls[i])
  /\ \E i \in 1 .. pos :
       /\ Tagged(Decls[i], "handle_acquire") # {}
       /\ NonNull(Decls[i]) \ Tagged(Decls[i], "handle_acquire") # {}

\* C13: in every declaration in scope, a parameter of type zx_handle_t*
\* whose position is listed in __NONNULL is tagged handle_acquire.  (It
\* fails at lines 253 and 1223, where the out parameter of
\* zx_object_get_child and of zx_interrupt_create carries no tag, and at
\* lines 1695 and 1703, where the outputs of zx_pager_create and
\* zx_pager_create_vmo are tagged with their own names.)
C13_NonnullHandlePointerIsAcquire ==
  \A i \in 1 .. pos :
    \A k \in NonNull(Decls[i]) \cap (1 .. Len(Decls[i].params)) :
      Decls[i].params[k].type = <<"zx_handle_t", "*">> =>
        "handle_acquire" \in TagsOf(Decls[i].params[k])

\* C14: in every declaration in scope with a __NONNULL((...)), each index
\* listed is between 1 and the number of parameters, the indices are
\* strictly increasing, and each designates a parameter of pointer type.
C14_NonnullIndicesWellFormed ==
  \A i \in 1 .. pos :
    \A a \in 1 .. Len(Decls[i].attrs) :
      Decls[i].attrs[a].attr = "__NONNULL" =>
        LET idx == Decls[i].attrs[a].args
        IN  /\ Len(idx) > 0
            /\ \A j \in 1 .. Len(idx) :
                 /\ idx[j] \in 1 .. Len(Decls[i].params)
                 /\ IsPointer(Decls[i].params[idx[j]])
            /\ \A j \in 1 .. Len(idx) - 1 : idx[j] < idx[j + 1]

\* A declaration whose __NONNULL lists three positions, the last one that
\* of its last parameter, and one whose __NONNULL skips a pointer
\* parameter, are in scope.
C14_Witness ==
  /\ \E i \in 1 .. pos :
       /\ Cardinality(NonNull(Decls[i])) >= 3
       /\ Len(Decls[i].params) \in NonNull(Decls[i])
  /\ \E i \in 1 .. pos :
       /\ NonNull(Decls[i]) # {}
       /\ \E k \in 1 .. Len(Decls[i].params) :
            IsPointer(Decls[i].params[k]) /\ k \notin NonNull(Decls[i])

\* C15: once the whole header is in scope, every _zx_X has a public zx_X,
\* no name is declared twice, and there are as many public declarations
\* as private-prefixed ones.
C15_PairingIsBijection ==
  pos = NumDecls =>
    /\ \A i \in 1 .. pos :
         IsPrivate(Decls[i]) =>
           \E j \in 1 .. pos :
             IsPublic(Decls[j]) /\ PrivateName(Decls[j].name) = Decls[i].name
    /\ \A i \in 1 .. pos : Named(Decls[i].name) = {i}
    /\ Cardinality({ i \in 1 .. pos : IsPublic(Decls[i]) })
         = Cardinality({ i \in 1 .. pos : IsPrivate(Decls[i]) })

\* The whole header is in scope, with public and private-prefixed
\* declarations in it and a private one whose public counterpart is there.
C15_Witness ==
  /\ pos = NumDecls
  /\ Cardinality({ i \in 1 .. pos : IsPrivate(Decls[i]) }) > 1
  /\ \E i \in 1 .. pos, j \in 1 .. pos :
       /\ IsPrivate(Decls[i]) /\ IsPublic(Decls[j])
       /\ PrivateName(Decls[j].name) = Decls[i].name

\* C16: in file order the declarations in scope alternate: the one at an
\* odd position is a public zx_X, the one right after it is its _zx_X.
C16_PublicThenPrivate ==
  /\ \A i \in 1 .. pos :
       IF i % 2 = 1
         THEN IsPublic(Decls[i])
         ELSE /\ IsPrivate(Decls[i])
              /\ Decls[i].name = PrivateName(Decls[i - 1].name)
  /\ pos = NumDecls => pos % 2 = 0

\* The whole header is in scope and its last declaration is the private
\* variant of the one before it.
C16_Witness ==
  /\ pos = NumDecls
  /\ IsPrivate(Decls[pos])
  /\ Decls[pos].name = PrivateName(Decls[pos - 1].name)

\* C17: every declaration in scope that carries __NO_RETURN returns void.
C17_NoReturnImpliesVoid ==
  \A i \in 1 .. pos :
    HasAttr(Decls[i], "__NO_RETURN") => Decls[i].ret = <<"void">>

\* zx_thread_exit, zx_process_exit and
\* zx_futex_wake_handle_close_thread_exit are in scope with __NO_RETURN,
\* next to zx_vmar_unmap_handle_close_thread_exit, which returns a status
\* and does not carry it.
C17_Witness ==
  /\ \A s \in { "thread_exit", "process_exit", "futex_wake_handle_close_thread_exit" } :
       \E i \in 1 .. pos : Stem(Decls[i]) = s /\ HasAttr(Decls[i], "__NO_RETURN")
  /\ \E i \in 1 .. pos :
       /\ Stem(Decls[i]) = "vmar_unmap_handle_close_thread_exit"
       /\ ~HasAttr(Decls[i], "__NO_RETURN")

\* C18: no declaration in scope has more than 8 parameters, and a
\* declaration has no parameter exactly when its list is written (void).
C18_AtMostEightParams ==
  \A i \in 1 .. pos :
    /\ Len(Decls[i].params) <= 8
    /\ Decls[i].voidList <=> Len(Decls[i].params) = 0

\* Declarations with 8 parameters and declarations written (void) are in
\* scope.
C18_Witness ==
  /\ \E i \in 1 .. pos : Len(Decls[i].params) = 8 /\ ~Decls[i].voidList
  /\ \E i \in 1 .. pos : Len(Decls[i].params) = 0 /\ Decls[i].voidList

====
